---- MODULE Spec2Model ----
(***************************************************************************)
(* Ownership kernel (Referenced / ref_ptr), ParticleCollector,             *)
(* PerformanceModule, ParticleFilter, EmissionMapFiller, PhotonOutput1D    *)
(* and the pipeline traversal of CRPropa3, as state machines.              *)
(*                                                                         *)
(* A size_t reference count is held as the signed representative of its    *)
(* residue modulo 2^64: the value -k stands for 2^64 - k, so that a        *)
(* decrement of 0 gives -1 (SIZE_MAX), whose conversion to int is -1.      *)
(***************************************************************************)
EXTENDS Integers, Sequences, FiniteSets, TLC

\* ------------------------------------------------------------------ bounds
NObj == 2
NThreads == 2
MaxCalls == 4
NHandles == 3
MaxCopies == 3
MaxProcess == 2
MaxHint == 1
MaxCand == 5
MaxStore == 2
MaxLen == 1
MaxModules == 2
MaxPerf == 2
MaxFill == 3
MaxOut == 3
MaxSteps == 3
MaxDepth == 1
MaxClose == 2
MaxN == 2

Objs == 1..NObj
Threads == 1..NThreads
Handles == 1..NHandles
Cands == 1..MaxCand

\* The three compile-time implementations of the counter.
Builds == {"OPENMP_3_1", "GNUC", "FALLBACK"}

VARIABLES
    build,      \* which implementation of the counter was compiled
    refCount,   \* Referenced::_referenceCount of every object
    alive,      \* the object has been constructed and not yet deleted
    deletions,  \* how many times "delete this" ran on the object
    pc,         \* per thread: where it is inside a counter call
    cur,        \* per thread: the call in flight (object, value read)
    last,       \* per thread: the last completed call and what it returned
    region,     \* holder of the named critical region newRef (0: free)
    hist,       \* per object: completed calls by kind, decrements seen
    calls,      \* number of calls started (bounded by MaxCalls)
    hlive,      \* per ref_ptr handle: constructed and not yet destructed
    ptr,        \* per ref_ptr handle: _ptr (0: null)
    lastOp,     \* the last ref_ptr operation, with the state it started from
    ctor,       \* ParticleCollector: the constructor overload used and its arguments
    clone,      \* ParticleCollector::clone
    recursive,  \* ParticleCollector::recursive
    reserved,   \* the capacity hint given to container.reserve
    cloneSet,   \* setClone has been called
    container,  \* ParticleCollector::container
    modifyContainer, \* holder of the critical region ModifyContainer (0: free)
    cpc,        \* per thread: "idle", or "inside" ParticleCollector::process
    cend,       \* per thread: the end of the container seen by its push_back
    done,       \* per thread: number of process calls that have returned
    ids,        \* ParticleFilter::ids
    fcall,      \* the last ParticleFilter::process call: id, set, accept/reject calls
    fmut,       \* the last change of ParticleFilter::ids, and what process said since
    cand,       \* per candidate object: its fields (particle id, active, ...)
    mlist,      \* the ModuleList given to getTrajectory: its modules, in order
    traj,       \* the getTrajectory call in flight, and what its run was given
    replay,     \* what the last reprocess passed to action->process, in order
    lastStore,  \* the last collector operation on objects, with its pre-state
    file,       \* the file written by dump: its lines, and what they were made of
    loaded,     \* the candidates a second, new collector holds after load
    modules,    \* PerformanceModule::modules: wrapped module and its time
    pmCalls,    \* PerformanceModule::calls
    pmRegion,   \* holder of the critical region PerformanceModule (0: free)
    ppc,        \* per thread: where it is inside PerformanceModule::process
    plocal,     \* per thread: its local times and the totals it has read
    pghost,     \* what the completed and running process calls did, for the claims
    report,     \* what ~PerformanceModule computed
    emissionMap, \* EmissionMapFiller::emissionMap (0: null)
    emRegion,   \* holder of the critical region EmissionMap (0: free)
    epc,        \* per thread: where it is inside EmissionMapFiller::process, what it did
    emCalls,    \* number of EmissionMapFiller::process calls started
    haveZlib,   \* the build has compression support (CRPROPA_HAVE_ZLIB)
    output,     \* PhotonOutput1D: how it was built, and what its stream received
    fileOutput, \* holder of the critical region FileOutput (0: free)
    opc,        \* per thread: where it is inside PhotonOutput1D::process, what it did
    outCalls,   \* number of PhotonOutput1D::process calls started
    tree,       \* per pipeline run: the candidate tree, its nodes in creation order
    drv,        \* per pipeline run: the driver's stack of nodes, and the module calls made
    mchain,     \* the module chain the threads run; a PerformanceModule holds its own
    walk,       \* per thread: the region operations its process call has still to make
    grid,       \* the grid loadGrid fills: kind, size, cells, assignments per cell
    fin         \* the file loadGrid reads, and where the call is

threadVars == <<pc, cur, last, region, hist, calls>>
handleVars == <<hlive, ptr, lastOp>>
collectorVars == <<ctor, clone, recursive, reserved, cloneSet, container,
                   modifyContainer, cpc, cend, done>>
vars == <<build, refCount, alive, deletions, pc, cur, last, region, hist, calls,
          hlive, ptr, lastOp, ctor, clone, recursive, reserved, cloneSet, container,
          modifyContainer, cpc, cend, done, ids, fcall, fmut, cand, mlist, traj,
          replay, lastStore, file, loaded, modules, pmCalls, pmRegion, ppc, plocal, pghost,
          report, emissionMap, emRegion, epc, emCalls, haveZlib, output,
          fileOutput, opc, outCalls, tree, drv,
          mchain, walk,
          grid, fin>>
filterVars == <<ids, fcall, fmut>>
storeVars == <<cand, mlist, traj, replay, lastStore, file, loaded>>
perfVars == <<modules, pmCalls, pmRegion, ppc, plocal, pghost, report>>
gridVars == <<grid, fin>>
regionVars == <<mchain, walk>>
emissionVars == <<emissionMap, emRegion, epc, emCalls>>
outputVars == <<haveZlib, output, fileOutput, opc, outCalls>>
driverVars == <<tree, drv>>
\* What the counter calls of the threads, the ref_ptr operations and the
\* collector's operations leave alone.
outsideKernel == <<handleVars, collectorVars, filterVars, storeVars, perfVars,
                    emissionVars, outputVars, driverVars,
    regionVars,
    gridVars>>
outsideHandles == <<threadVars, collectorVars, filterVars, storeVars, perfVars,
                    emissionVars, outputVars, driverVars,
    regionVars,
    gridVars>>
outsideCollector == <<build, refCount, alive, deletions, threadVars, handleVars, filterVars,
                      storeVars, perfVars,
                    emissionVars, outputVars, driverVars,
    regionVars,
    gridVars>>
outsideFilter == <<build, refCount, alive, deletions, threadVars, handleVars, collectorVars,
                   storeVars, perfVars,
                    emissionVars, outputVars, driverVars,
    regionVars,
    gridVars>>
outsideStore == <<build, threadVars, handleVars, filterVars, perfVars,
                    emissionVars, outputVars, driverVars,
    regionVars,
    gridVars>>

\* ------------------------------------------------------- Referenced (kernel)
NoCall == [name |-> "none", obj |-> 0, before |-> 0, ret |-> 0, deleted |-> FALSE]
NoCur == [obj |-> 0, tmp |-> 0]
NoHist == [adds |-> 0, rems |-> 0, nodels |-> 0, zeroDec |-> FALSE, oneToZero |-> 0]

\* Referenced(): a new object starts with _referenceCount(0).
ReferencedInit ==
    /\ refCount = [o \in Objs |-> 0]
    /\ alive = [o \in Objs |-> TRUE]
    /\ deletions = [o \in Objs |-> 0]

\* The value addReference leaves in newRef for a count c read by the
\* read-modify-write: __sync_add_and_fetch gives the new value, the two
\* "newRef = _referenceCount++" forms capture the old one.
AddCapture(b, c) == IF b = "GNUC" THEN c + 1 ELSE c

\* The value removeReference leaves in newRef: __sync_sub_and_fetch gives the
\* new value, "newRef = _referenceCount--" captures the old one.
RemoveCapture(b, c) == IF b = "GNUC" THEN c - 1 ELSE c

\* "if (newRef == 0) delete this;"
DeletesOn(newRef) == newRef = 0

Record(h, name, before) ==
    [h EXCEPT !.adds = IF name = "add" THEN @ + 1 ELSE @,
              !.rems = IF name = "remove" THEN @ + 1 ELSE @,
              !.nodels = IF name = "nodelete" THEN @ + 1 ELSE @,
              !.zeroDec = @ \/ (name # "add" /\ before = 0),
              !.oneToZero = IF name # "add" /\ before = 1 THEN @ + 1 ELSE @]

\* The effect of one counter read-modify-write of thread t on object o that
\* read the count c: addReference (name "add") or removeReference ("remove").
Complete(t, o, name, c) ==
    LET newRef == IF name = "add" THEN AddCapture(build, c) ELSE RemoveCapture(build, c)
        del == name = "remove" /\ DeletesOn(newRef)
    IN  /\ refCount' = [refCount EXCEPT ![o] = IF name = "add" THEN c + 1 ELSE c - 1]
        /\ alive' = [alive EXCEPT ![o] = IF del THEN FALSE ELSE @]
        /\ deletions' = [deletions EXCEPT ![o] = IF del THEN @ + 1 ELSE @]
        /\ last' = [last EXCEPT ![t] = [name |-> name, obj |-> o, before |-> c,
                                        ret |-> newRef, deleted |-> del]]
        /\ hist' = [hist EXCEPT ![o] = Record(@, name, c)]

CanCall(t, o) == pc[t] = "idle" /\ alive[o] /\ calls < MaxCalls

\* addReference where the increment is one hardware-atomic operation.
AddReference(t, o) ==
    /\ build # "FALLBACK"
    /\ CanCall(t, o)
    /\ Complete(t, o, "add", refCount[o])
    /\ calls' = calls + 1
    /\ UNCHANGED <<build, pc, cur, region, outsideKernel>>

\* removeReference where the decrement is one hardware-atomic operation.
RemoveReference(t, o) ==
    /\ build # "FALLBACK"
    /\ CanCall(t, o)
    /\ Complete(t, o, "remove", refCount[o])
    /\ calls' = calls + 1
    /\ UNCHANGED <<build, pc, cur, region, outsideKernel>>

RegionFree == region = 0

\* Fallback build: enter "#pragma omp critical(newRef)" and read the count.
CriticalEnter(t, o, name) ==
    /\ build = "FALLBACK"
    /\ CanCall(t, o)
    /\ RegionFree
    /\ region' = t
    /\ pc' = [pc EXCEPT ![t] = name]
    /\ cur' = [cur EXCEPT ![t] = [obj |-> o, tmp |-> refCount[o]]]
    /\ calls' = calls + 1
    /\ UNCHANGED <<build, refCount, alive, deletions, last, hist, outsideKernel>>

\* Fallback build: write the count back, leave the region, delete on zero.
CriticalLeave(t) ==
    /\ pc[t] \in {"add", "remove"}
    /\ region = t
    /\ Complete(t, cur[t].obj, pc[t], cur[t].tmp)
    /\ region' = 0
    /\ pc' = [pc EXCEPT ![t] = "idle"]
    /\ cur' = [cur EXCEPT ![t] = NoCur]
    /\ UNCHANGED <<build, calls, outsideKernel>>

\* removeReferenceNoDelete, "return --_referenceCount;": a plain read ...
NoDeleteRead(t, o) ==
    /\ CanCall(t, o)
    /\ pc' = [pc EXCEPT ![t] = "nodelete"]
    /\ cur' = [cur EXCEPT ![t] = [obj |-> o, tmp |-> refCount[o]]]
    /\ calls' = calls + 1
    /\ UNCHANGED <<build, refCount, alive, deletions, last, region, hist, outsideKernel>>

\* ... followed by a plain write of the value read minus one; never deletes.
NoDeleteWrite(t) ==
    /\ pc[t] = "nodelete"
    /\ LET o == cur[t].obj
           c == cur[t].tmp
       IN  /\ refCount' = [refCount EXCEPT ![o] = c - 1]
           /\ last' = [last EXCEPT ![t] = [name |-> "nodelete", obj |-> o, before |-> c,
                                           ret |-> c - 1, deleted |-> FALSE]]
           /\ hist' = [hist EXCEPT ![o] = Record(@, "nodelete", c)]
    /\ pc' = [pc EXCEPT ![t] = "idle"]
    /\ cur' = [cur EXCEPT ![t] = NoCur]
    /\ UNCHANGED <<build, alive, deletions, region, calls, outsideKernel>>

\* getReferenceCount: returns the count and changes nothing.
GetReferenceCount(t, o) ==
    /\ CanCall(t, o)
    /\ last' = [last EXCEPT ![t] = [name |-> "get", obj |-> o, before |-> refCount[o],
                                    ret |-> refCount[o], deleted |-> FALSE]]
    /\ calls' = calls + 1
    /\ UNCHANGED <<build, refCount, alive, deletions, pc, cur, region, hist, outsideKernel>>

\* No thread is inside a counter call.
ThreadsInit ==
    /\ pc = [t \in Threads |-> "idle"]
    /\ cur = [t \in Threads |-> NoCur]
    /\ last = [t \in Threads |-> NoCall]
    /\ region = 0
    /\ hist = [o \in Objs |-> NoHist]
    /\ calls = 0

NoOp == [op |-> "none", h |-> 0, old |-> 0, new |-> 0, ret |-> 0,
         pre |-> [o \in Objs |-> 0], preAlive |-> [o \in Objs |-> TRUE]]

\* No ref_ptr has been constructed.
HandlesInit ==
    /\ hlive = [h \in Handles |-> FALSE]
    /\ ptr = [h \in Handles |-> 0]
    /\ lastOp = NoOp

\* ParticleCollector(): nBuffer(10e6), clone(false), recursive(false).
DefaultBuffer == 10000000

\* No collector has been constructed yet.
Unconstructed ==
    /\ ctor = [overload |-> 0, clone |-> FALSE, recursive |-> FALSE]
    /\ clone = FALSE
    /\ recursive = FALSE
    /\ reserved = 0
    /\ cloneSet = FALSE
    /\ container = <<>>

\* No thread is inside ParticleCollector::process.
ProcessInit ==
    /\ modifyContainer = 0
    /\ cpc = [t \in Threads |-> "idle"]
    /\ cend = [t \in Threads |-> 0]
    /\ done = [t \in Threads |-> 0]

CollectorInit ==
    /\ Unconstructed
    /\ ProcessInit

\* The set has not been changed yet. Of the last change: the operation, the
\* id, the set before it, and what the process calls on that id have done
\* since ("accept", "reject", or "none" when there was no such call).
NoMutator == [op |-> "none", id |-> 0, pre |-> {}, checked |-> "none"]

NoProcess == [op |-> "none", id |-> 0, ids |-> {}, accepts |-> 0, rejects |-> 0]

\* ParticleFilter(): an empty identifier set, no process call yet.
FilterInit ==
    /\ ids = {}
    /\ fcall = NoProcess
    /\ fmut = NoMutator

\* The fields of a candidate: the particle id of its current state, the
\* active flag, the trajectory length, the particle ids of its created and
\* source snapshots, and its secondaries (handles to candidate objects).
NoCand == [id |-> 0, active |-> FALSE, len |-> 0, created |-> 0, source |-> 0,
           secs |-> <<>>]

NoTraj == [phase |-> "idle", idx |-> 0, tmp |-> 0, start |-> NoCand,
           chain |-> <<>>, before |-> <<>>]

NoStore == [op |-> "none", c |-> 0, clone |-> FALSE, recursive |-> FALSE,
            pre |-> <<>>, preAlive |-> <<>>, snap |-> <<>>,
            preContainer |-> <<>>]

NoFile == [written |-> FALSE, lines |-> <<>>, of |-> <<>>]

\* No candidate object exists and no collector operation has run.
StoreInit ==
    /\ cand = [c \in Cands |-> NoCand]
    /\ mlist = <<>>
    /\ traj = NoTraj
    /\ replay = <<>>
    /\ lastStore = NoStore
    /\ file = NoFile
    /\ loaded = NoFile

NoLocal == [cand |-> 0, times |-> <<>>, log |-> <<>>, seen |-> <<>>, seenCalls |-> 0]
NoGhost == [started |-> 0, completed |-> 0, sums |-> <<>>,
            last |-> [t \in Threads |-> NoLocal]]
NoReport == [done |-> FALSE, total |-> 0, lines |-> <<>>]

\* A new PerformanceModule: no wrapped module, an invocation counter of 0,
\* no thread inside process.
PerfInit ==
    /\ modules = <<>>
    /\ pmCalls = 0
    /\ pmRegion = 0
    /\ ppc = [t \in Threads |-> "idle"]
    /\ plocal = [t \in Threads |-> NoLocal]
    /\ pghost = NoGhost
    /\ report = NoReport

\* A thread outside EmissionMapFiller::process. Of its last call: the
\* candidate and its active flag, whether emissionMap was found set, the
\* fillMap calls made (map and state passed), how often the critical region
\* was entered, and whether the call has returned.
NoFill == [at |-> "idle", c |-> 0, active |-> FALSE, set |-> FALSE, fills |-> <<>>,
           entries |-> 0, returned |-> FALSE]

\* EmissionMapFiller(EmissionMap *emissionMap) with a null pointer, and no
\* thread inside process.
EmissionInit ==
    /\ emissionMap = 0
    /\ emRegion = 0
    /\ epc = [t \in Threads |-> NoFill]
    /\ emCalls = 0

\* No PhotonOutput1D has been constructed; the build has compression support.
\* out is the stream the member out points to ("null" for 0); freed counts the
\* "delete out" made, closes the calls of close(); wild says that a write was
\* made through a null pointer.
NoOutput == [ctor |-> 0, threw |-> FALSE, filename |-> <<>>, gz |-> FALSE,
             stream |-> <<>>, out |-> "null", freed |-> 0, closes |-> 0,
             wild |-> FALSE, destroyed |-> FALSE]

\* A thread outside PhotonOutput1D::process. Of its last call: its number,
\* the candidate, the buffer formatted, the write calls made, how often the
\* critical region was entered, and whether the call has returned.
NoWrite == [at |-> "idle", call |-> 0, c |-> 0, buffer |-> <<>>, writes |-> 0,
            entries |-> 0, returned |-> FALSE]

OutputInit ==
    /\ haveZlib = TRUE
    /\ output = NoOutput
    /\ fileOutput = 0
    /\ opc = [t \in Threads |-> NoWrite]
    /\ outCalls = 0

\* The pipeline runs compared with each other.
Runs == {1, 2}

\* A run that has not been given its candidate.
NoRun == [stack |-> <<>>, log |-> <<>>, done |-> FALSE]

DriverInit ==
    /\ tree = [r \in Runs |-> <<>>]
    /\ drv = [r \in Runs |-> NoRun]

\* No grid and no file yet.
NoGrid == [kind |-> "none", n |-> <<0, 0, 0>>, cells |-> <<>>, writes |-> <<>>]
NoFin == [found |-> FALSE, bytes |-> 0, c |-> 0, at |-> "idle", pos |-> 0,
          ix |-> 0, iy |-> 0, iz |-> 0]

GridInit ==
    /\ grid = NoGrid
    /\ fin = NoFin

\* No chain has been set up, and no thread is inside a process call of one.
NoWalk == [prog |-> <<>>]

RegionsInit ==
    /\ mchain = <<>>
    /\ walk = [t \in Threads |-> NoWalk]

Init ==
    /\ build \in Builds
    /\ ReferencedInit
    /\ ThreadsInit
    /\ HandlesInit
    /\ CollectorInit
    /\ FilterInit
    /\ StoreInit
    /\ PerfInit
    /\ GridInit
    /\ RegionsInit
    /\ DriverInit
    /\ OutputInit
    /\ EmissionInit

\* The object whose counter the threads call concurrently.
SharedObjs == {1}

Next ==
    \/ \E t \in Threads, o \in SharedObjs : AddReference(t, o)
    \/ \E t \in Threads, o \in SharedObjs : RemoveReference(t, o)
    \/ \E t \in Threads, o \in SharedObjs, name \in {"add", "remove"} :
           CriticalEnter(t, o, name)
    \/ \E t \in Threads : CriticalLeave(t)
    \/ \E t \in Threads, o \in SharedObjs : NoDeleteRead(t, o)
    \/ \E t \in Threads : NoDeleteWrite(t)
    \/ \E t \in Threads, o \in SharedObjs : GetReferenceCount(t, o)

\* Threads calling the counter methods of one object, in any interleaving.
Spec == Init /\ [][Next]_vars

\* ---------------------------------------------------------------- ref_ptr
\* The counters, lifetimes and delete counts as one value, so that one
\* ref_ptr operation can apply several counter calls in sequence.
Counters == [rc |-> refCount, al |-> alive, del |-> deletions]

SetCounters(st) ==
    /\ refCount' = st.rc
    /\ alive' = st.al
    /\ deletions' = st.del

\* Mutant of RefAdd: the handle is copied without addReference.
RefAddForgotten(st, o) == st

\* _ptr->addReference()
RefAdd(st, o) == [st EXCEPT !.rc[o] = @ + 1]

\* _ptr->removeReference(): decrement, and "delete this" when newRef == 0.
RefRemove(st, o) ==
    LET del == DeletesOn(RemoveCapture(build, st.rc[o]))
    IN  [st EXCEPT !.rc[o] = @ - 1,
                   !.al[o] = IF del THEN FALSE ELSE @,
                   !.del[o] = IF del THEN @ + 1 ELSE @]

\* Mutant of RefRemoveNoDelete: release() calls removeReference instead.
RefRemoveNoDeleteDeletes(st, o) == RefRemove(st, o)

\* _ptr->removeReferenceNoDelete()
RefRemoveNoDelete(st, o) == [st EXCEPT !.rc[o] = @ - 1]

\* A raw pointer a caller can pass: null or a live object.
RawPtrs == {0} \cup {o \in Objs : alive[o]}

Op(name, h, old, new, ret) ==
    [op |-> name, h |-> h, old |-> old, new |-> new, ret |-> ret,
     pre |-> refCount, preAlive |-> alive]

\* ref_ptr(): a null handle.
CtorNull(h) ==
    /\ ~hlive[h]
    /\ hlive' = [hlive EXCEPT ![h] = TRUE]
    /\ ptr' = [ptr EXCEPT ![h] = 0]
    /\ lastOp' = Op("ctor", h, 0, 0, 0)
    /\ UNCHANGED <<build, refCount, alive, deletions, outsideHandles>>

\* ref_ptr(T* p): _ptr(p), addReference if non-null.
CtorRaw(h, p) ==
    /\ ~hlive[h]
    /\ p \in RawPtrs
    /\ hlive' = [hlive EXCEPT ![h] = TRUE]
    /\ ptr' = [ptr EXCEPT ![h] = p]
    /\ SetCounters(IF p # 0 THEN RefAdd(Counters, p) ELSE Counters)
    /\ lastOp' = Op("ctor", h, 0, p, 0)
    /\ UNCHANGED <<build, outsideHandles>>

\* ref_ptr(const ref_ptr& rp): _ptr(rp._ptr), addReference if non-null.
CtorCopy(h, rp) ==
    /\ ~hlive[h]
    /\ hlive[rp]
    /\ hlive' = [hlive EXCEPT ![h] = TRUE]
    /\ ptr' = [ptr EXCEPT ![h] = ptr[rp]]
    /\ SetCounters(IF ptr[rp] # 0 THEN RefAdd(Counters, ptr[rp]) ELSE Counters)
    /\ lastOp' = Op("copy", h, 0, ptr[rp], 0)
    /\ UNCHANGED <<build, outsideHandles>>

\* ~ref_ptr(): removeReference if non-null, then _ptr = 0.
Dtor(h) ==
    /\ hlive[h]
    /\ hlive' = [hlive EXCEPT ![h] = FALSE]
    /\ ptr' = [ptr EXCEPT ![h] = 0]
    /\ SetCounters(IF ptr[h] # 0 THEN RefRemove(Counters, ptr[h]) ELSE Counters)
    /\ lastOp' = Op("dtor", h, ptr[h], 0, 0)
    /\ UNCHANGED <<build, outsideHandles>>

\* The body shared by assign(rp) and operator=(T*): nothing when the target
\* is unchanged; else store the new pointer, addReference on it, then
\* removeReference on the old one.
Reassign(h, p) ==
    IF ptr[h] = p
    THEN Counters
    ELSE LET added == IF p # 0 THEN RefAdd(Counters, p) ELSE Counters
         IN  IF ptr[h] # 0 THEN RefRemove(added, ptr[h]) ELSE added

\* operator=(const ref_ptr& rp), through assign(rp).
Assign(h, rp) ==
    /\ hlive[h]
    /\ hlive[rp]
    /\ ptr' = [ptr EXCEPT ![h] = ptr[rp]]
    /\ SetCounters(Reassign(h, ptr[rp]))
    /\ lastOp' = Op("assign", h, ptr[h], ptr[rp], 0)
    /\ UNCHANGED <<build, hlive, outsideHandles>>

\* operator=(T* p)
AssignRaw(h, p) ==
    /\ hlive[h]
    /\ p \in RawPtrs
    /\ ptr' = [ptr EXCEPT ![h] = p]
    /\ SetCounters(Reassign(h, p))
    /\ lastOp' = Op("assign", h, ptr[h], p, 0)
    /\ UNCHANGED <<build, hlive, outsideHandles>>

\* release(): removeReferenceNoDelete if non-null, _ptr = 0, return old _ptr.
Release(h) ==
    /\ hlive[h]
    /\ ptr' = [ptr EXCEPT ![h] = 0]
    /\ SetCounters(IF ptr[h] # 0 THEN RefRemoveNoDelete(Counters, ptr[h]) ELSE Counters)
    /\ lastOp' = Op("release", h, ptr[h], 0, ptr[h])
    /\ UNCHANGED <<build, hlive, outsideHandles>>

\* swap(rp): exchange the two pointers, no counter call.
Swap(h, rp) ==
    /\ hlive[h]
    /\ hlive[rp]
    /\ ptr' = [ptr EXCEPT ![h] = ptr[rp], ![rp] = ptr[h]]
    /\ lastOp' = Op("swap", h, ptr[h], ptr[rp], 0)
    /\ UNCHANGED <<build, refCount, alive, deletions, hlive, outsideHandles>>

NextPtr ==
    \/ \E h \in Handles : CtorNull(h)
    \/ \E h \in Handles, p \in 0..NObj : CtorRaw(h, p)
    \/ \E h, rp \in Handles : CtorCopy(h, rp)
    \/ \E h \in Handles : Dtor(h)
    \/ \E h, rp \in Handles : Assign(h, rp)
    \/ \E h \in Handles, p \in 0..NObj : AssignRaw(h, p)
    \/ \E h \in Handles : Release(h)
    \/ \E h, rp \in Handles : Swap(h, rp)

\* Any sequence of ref_ptr operations of one thread on new objects.
SpecPtr == Init /\ [][NextPtr]_vars

\* The operations of NextPtr that leave the objects to their handles: all
\* but release().
NextOwned ==
    \/ \E h \in Handles : CtorNull(h)
    \/ \E h \in Handles, p \in 0..NObj : CtorRaw(h, p)
    \/ \E h, rp \in Handles : CtorCopy(h, rp)
    \/ \E h \in Handles : Dtor(h)
    \/ \E h, rp \in Handles : Assign(h, rp)
    \/ \E h \in Handles, p \in 0..NObj : AssignRaw(h, p)
    \/ \E h, rp \in Handles : Swap(h, rp)

\* Objects managed through ref_ptr handles only.
SpecOwned == Init /\ [][NextOwned]_vars

\* -------------------------------------------- objects that hold a handle
\* An object can have a ref_ptr as a member (a candidate its secondaries):
\* here object o, but the last, has the handle LinkOf(o), the handles
\* 1..NObj being local variables of the caller.
Linked == 1..(NObj - 1)
LinkOf(o) == NHandles + 1 - o
Locals == {h \in Handles : \A o \in Linked : h # LinkOf(o)}

\* The counters and the handles as one value.
Graph == [rc |-> refCount, al |-> alive, del |-> deletions, hl |-> hlive, pt |-> ptr]

SetGraph(st) ==
    /\ refCount' = st.rc
    /\ alive' = st.al
    /\ deletions' = st.del
    /\ hlive' = st.hl
    /\ ptr' = st.pt

RECURSIVE RemoveReferenceOf(_, _)
\* _ptr->removeReference() on object o: the decrement and, when newRef == 0,
\* "delete this", which destroys the members of o: ~ref_ptr of its handle
\* calls removeReference on that handle's target.
RemoveReferenceOf(st, o) ==
    LET del == DeletesOn(RemoveCapture(build, st.rc[o]))
        dec == [st EXCEPT !.rc[o] = @ - 1,
                          !.al[o] = IF del THEN FALSE ELSE @,
                          !.del[o] = IF del THEN @ + 1 ELSE @]
    IN  IF del /\ o \in Linked /\ st.hl[LinkOf(o)]
        THEN LET gone == [dec EXCEPT !.hl[LinkOf(o)] = FALSE]
             IN  IF st.pt[LinkOf(o)] # 0
                 THEN RemoveReferenceOf(gone, st.pt[LinkOf(o)])
                 ELSE gone
        ELSE dec

ReassignLinkedRemoveFirst(st, h, p) ==
    IF st.pt[h] = p
    THEN st
    ELSE LET removed == IF st.pt[h] # 0
                        THEN RemoveReferenceOf([st EXCEPT !.pt[h] = p], st.pt[h])
                        ELSE [st EXCEPT !.pt[h] = p]
         IN  IF p # 0 THEN [removed EXCEPT !.rc[p] = @ + 1] ELSE removed

\* The body shared by assign(rp) and operator=(T*): nothing when the target
\* is unchanged; else "_ptr = ptr", addReference on the new target, then
\* removeReference on the old one.
ReassignLinked(st, h, p) ==
    IF st.pt[h] = p
    THEN st
    ELSE LET stored == [st EXCEPT !.pt[h] = p]
             added == IF p # 0 THEN [stored EXCEPT !.rc[p] = @ + 1] ELSE stored
         IN  IF st.pt[h] # 0 THEN RemoveReferenceOf(added, st.pt[h]) ELSE added

\* operator=(const ref_ptr& rp), through assign(rp), on a handle that is a
\* local variable or the member of a live object.
LinkedAssign(h, rp) ==
    /\ hlive[h]
    /\ hlive[rp]
    /\ SetGraph(ReassignLinked(Graph, h, ptr[rp]))
    /\ lastOp' = Op("assign", h, ptr[h], ptr[rp], 0)
    /\ UNCHANGED <<build, outsideHandles>>

\* operator=(T* p)
LinkedAssignRaw(h, p) ==
    /\ hlive[h]
    /\ p \in RawPtrs
    /\ SetGraph(ReassignLinked(Graph, h, p))
    /\ lastOp' = Op("assign", h, ptr[h], p, 0)
    /\ UNCHANGED <<build, outsideHandles>>

\* ~ref_ptr() of a local handle.
LinkedDtor(h) ==
    /\ hlive[h]
    /\ h \in Locals
    /\ SetGraph(IF ptr[h] # 0
                THEN RemoveReferenceOf([Graph EXCEPT !.hl[h] = FALSE], ptr[h])
                ELSE [Graph EXCEPT !.hl[h] = FALSE])
    /\ lastOp' = Op("dtor", h, ptr[h], 0, 0)
    /\ UNCHANGED <<build, outsideHandles>>

\* Every object is alive, every handle is null or points to an object, and
\* the count of an object is the number of handles that point to it.
InitLinked ==
    /\ build \in Builds
    /\ hlive = [h \in Handles |-> TRUE]
    /\ ptr \in [Handles -> {0} \cup Objs]
    /\ refCount = [o \in Objs |-> Cardinality({h \in Handles : ptr[h] = o})]
    /\ alive = [o \in Objs |-> TRUE]
    /\ deletions = [o \in Objs |-> 0]
    /\ lastOp = NoOp
    /\ ThreadsInit
    /\ CollectorInit
    /\ FilterInit
    /\ StoreInit
    /\ PerfInit
    /\ GridInit
    /\ RegionsInit
    /\ EmissionInit
    /\ OutputInit
    /\ DriverInit

NextLinked ==
    \/ \E h, rp \in Handles : LinkedAssign(h, rp)
    \/ \E h \in Handles, p \in 0..NObj : LinkedAssignRaw(h, p)
    \/ \E h \in Handles : LinkedDtor(h)

\* Handles, some of them members of objects, are reassigned and destroyed.
SpecLinked == InitLinked /\ [][NextLinked]_vars

\* ------------------------------------------------- copies of one handle
\* Handle o is the one original handle of object o ("ref_ptr<T> p(new T)");
\* the other handles are free slots for copies.
Originals == 1..NObj
CopySlots == (NObj + 1)..(NObj + MaxCopies)

InitCopies ==
    /\ build \in Builds
    /\ refCount = [o \in Objs |-> 1]
    /\ alive = [o \in Objs |-> TRUE]
    /\ deletions = [o \in Objs |-> 0]
    /\ ThreadsInit
    /\ CollectorInit
    /\ FilterInit
    /\ StoreInit
    /\ PerfInit
    /\ GridInit
    /\ RegionsInit
    /\ DriverInit
    /\ OutputInit
    /\ EmissionInit
    /\ hlive = [h \in Originals \cup CopySlots |-> h \in Originals]
    /\ ptr = [h \in Originals \cup CopySlots |-> IF h \in Originals THEN h ELSE 0]
    /\ lastOp = [NoOp EXCEPT !.pre = [o \in Objs |-> 1]]

NextCopies ==
    \/ \E h \in CopySlots, rp \in Originals \cup CopySlots : CtorCopy(h, rp)
    \/ \E h \in CopySlots : Dtor(h)

\* Copies of the original handles are made and destroyed, in any order.
SpecCopies == InitCopies /\ [][NextCopies]_vars

\* The live copies of the handles to object o.
CopiesOf(o) == {h \in CopySlots : hlive[h] /\ ptr[h] = o}

\* ------------------------------------------------------ ParticleCollector
BufferHints == 0..MaxHint

\* Constructor overload ov with the arguments (nBuffer, cloneArg,
\* recursiveArg): 1 is ParticleCollector(), 2 is (nBuffer), 3 is (nBuffer,
\* clone), 4 is (nBuffer, clone, recursive). Overloads 3 and 4 have no
\* initializer for the member clone, and overload 4 none for recursive: such
\* a member holds an indeterminate value, uc or ur.
Construct(ov, nBuffer, cloneArg, recursiveArg, uc, ur) ==
    /\ ctor.overload = 0
    /\ ctor' = [overload |-> ov,
                clone |-> IF ov >= 3 THEN cloneArg ELSE FALSE,
                recursive |-> IF ov = 4 THEN recursiveArg ELSE FALSE]
    /\ clone' = IF ov <= 2 THEN FALSE ELSE uc
    /\ recursive' = IF ov <= 3 THEN FALSE ELSE ur
    /\ reserved' = IF ov = 1 THEN DefaultBuffer ELSE nBuffer
    /\ UNCHANGED <<cloneSet, container, modifyContainer, cpc, cend, done,
                   outsideCollector>>

\* The entry process stores for the k-th candidate of thread t: the
\* candidate itself, or c->clone(recursive) when the member clone is set.
Entry(t, k) == [src |-> <<t, k>>, isClone |-> clone, rec |-> clone /\ recursive]

\* Mutant of PushEntry: the buffer holds no more than the reserved capacity.
PushEntryWithinHint(buf, e) == IF Len(buf) < reserved THEN Append(buf, e) ELSE buf

\* container.push_back(e) on the entries buf: e becomes the last entry; the
\* capacity reserved by the constructor plays no part.
PushEntry(buf, e) == Append(buf, e)

\* Mutant of ModifyContainerFree: process without the critical region.
ModifyContainerIgnored == TRUE

\* "#pragma omp critical(ModifyContainer)" can be entered.
ModifyContainerFree == modifyContainer = 0

\* process(Candidate *c): enter the critical region; push_back starts by
\* reading where the container ends.
ProcessEnter(t) ==
    /\ ctor.overload # 0
    /\ cpc[t] = "idle"
    /\ done[t] < MaxProcess
    /\ ModifyContainerFree
    /\ modifyContainer' = t
    /\ cpc' = [cpc EXCEPT ![t] = "inside"]
    /\ cend' = [cend EXCEPT ![t] = Len(container)]
    /\ UNCHANGED <<ctor, clone, recursive, reserved, cloneSet, container, done,
                   outsideCollector>>

\* push_back stores the entry at the end it read, which becomes the new end
\* (growing the buffer past the reserved capacity when needed); the thread
\* leaves the critical region and process returns.
ProcessLeave(t) ==
    /\ cpc[t] = "inside"
    /\ container' = PushEntry(SubSeq(container, 1, cend[t]), Entry(t, done[t] + 1))
    /\ modifyContainer' = 0
    /\ cpc' = [cpc EXCEPT ![t] = "idle"]
    /\ cend' = [cend EXCEPT ![t] = 0]
    /\ done' = [done EXCEPT ![t] = @ + 1]
    /\ UNCHANGED <<ctor, clone, recursive, reserved, cloneSet, outsideCollector>>

\* setClone(bool b). It is not synchronised with process: the collector is
\* configured before the worker threads use it.
SetClone(b) ==
    /\ ctor.overload # 0
    /\ \A t \in Threads : cpc[t] = "idle" /\ done[t] = 0
    /\ clone # b
    /\ clone' = b
    /\ cloneSet' = TRUE
    /\ UNCHANGED <<ctor, recursive, reserved, container, modifyContainer, cpc, cend,
                   done, outsideCollector>>

\* getClone()
GetClone == clone

\* size()
Size == Len(container)

InitCollector ==
    /\ build = "GNUC"
    /\ ReferencedInit
    /\ ThreadsInit
    /\ HandlesInit
    /\ CollectorInit
    /\ FilterInit
    /\ StoreInit
    /\ PerfInit
    /\ GridInit
    /\ RegionsInit
    /\ DriverInit
    /\ OutputInit
    /\ EmissionInit

NextCollector ==
    \/ \E ov \in 1..4, n \in BufferHints, c, r, uc, ur \in BOOLEAN :
           Construct(ov, n, c, r, uc, ur)
    \/ \E t \in Threads : ProcessEnter(t)
    \/ \E t \in Threads : ProcessLeave(t)
    \/ \E b \in BOOLEAN : SetClone(b)

\* A collector built by any constructor, used by NThreads worker threads
\* that each call process MaxProcess times.
SpecCollector == InitCollector /\ [][NextCollector]_vars

\* The operations that read the buffer: reprocess and dump (which is a
\* reprocess into a TextOutput) walk it from begin() to end(), getTrajectory
\* reads container[i].
Readers == {"reprocess", "dump", "getTrajectory"}

\* reprocess(action), dump(filename), getTrajectory(mlist, i, output): the
\* thread starts to read the buffer, at begin() or at index i. None of the
\* three enters a critical region.
ReadBegin(t, op, i) ==
    /\ ctor.overload # 0
    /\ cpc[t] = "idle"
    /\ IF op = "getTrajectory" THEN i \in 1..Len(container) ELSE i = 1
    /\ cpc' = [cpc EXCEPT ![t] = op]
    /\ cend' = [cend EXCEPT ![t] = i]
    /\ UNCHANGED <<ctor, clone, recursive, reserved, cloneSet, container,
                   modifyContainer, done, outsideCollector>>

\* "itr != container.end()": the entry at the iterator is handed to the
\* action and the iterator moves on; at the end, and after the one entry of
\* getTrajectory, the operation returns.
ReadNext(t) ==
    /\ cpc[t] \in Readers
    /\ IF cpc[t] # "getTrajectory" /\ cend[t] <= Len(container)
       THEN /\ cend' = [cend EXCEPT ![t] = @ + 1]
            /\ UNCHANGED cpc
       ELSE /\ cend' = [cend EXCEPT ![t] = 0]
            /\ cpc' = [cpc EXCEPT ![t] = "idle"]
    /\ UNCHANGED <<ctor, clone, recursive, reserved, cloneSet, container,
                   modifyContainer, done, outsideCollector>>

\* push_back on a buffer that holds as many entries as its capacity moves
\* the entries to a new allocation; reserve(nBuffer) made the capacity
\* nBuffer.
Reallocates(buf) == Len(buf) >= reserved

NextReaders ==
    \/ \E n \in BufferHints, c \in BOOLEAN : Construct(3, n, c, FALSE, c, FALSE)
    \/ \E t \in Threads : ProcessEnter(t)
    \/ \E t \in Threads : ProcessLeave(t)
    \/ \E t \in Threads, op \in Readers, i \in 1..(NThreads * MaxProcess) :
           ReadBegin(t, op, i)
    \/ \E t \in Threads : ReadNext(t)

\* Worker threads call process while others read the buffer.
SpecReaders == InitCollector /\ [][NextReaders]_vars

\* ------------------------------------- ParticleCollector, object by object
\* The candidate objects, their counters and their fields as one value, so
\* that one collector operation can apply several steps in sequence.
Heap == [rc |-> refCount, al |-> alive, del |-> deletions, cd |-> cand]

SetHeap(st) ==
    /\ SetCounters(st)
    /\ cand' = st.cd

\* The addresses at which operator new can place a candidate.
Free(st) == {n \in Cands : ~st.al[n]}

FreshId(st) == CHOOSE n \in Free(st) : \A m \in Free(st) : n <= m

\* Referenced(const Referenced&): the copy starts with _referenceCount(0),
\* whatever the count of the object copied; operator= leaves the count of
\* the target as it is. The new object is at address n.
ReferencedCopy(st, n) ==
    [st EXCEPT !.al[n] = TRUE, !.rc[n] = 0, !.del[n] = 0]

RECURSIVE Nodes(_, _)
\* The candidate c and all candidates below it in its secondary tree.
Nodes(st, c) ==
    {c} \cup UNION {Nodes(st, st.cd[c].secs[i]) : i \in 1..Len(st.cd[c].secs)}

RECURSIVE CandClone(_, _, _)
RECURSIVE CloneSecs(_, _, _)
\* Candidate::clone(recursive): a new candidate with the fields of c, held
\* by the handle that clone returns; its secondaries are clones of c's
\* secondaries when recursive is set, and none otherwise.
CandClone(st, c, rec) ==
    LET n == FreshId(st)
        made == [ReferencedCopy(st, n) EXCEPT !.cd[n] = [st.cd[c] EXCEPT !.secs = <<>>]]
        held == RefAdd(made, n)
    IN  [st |-> IF rec THEN CloneSecs(held, n, st.cd[c].secs) ELSE held,
         obj |-> n]

\* The loop of clone over the secondaries: each clone is appended to the
\* secondaries of n (a copy of its handle), and the local handle goes.
CloneSecs(st, n, secs) ==
    IF secs = <<>> THEN st
    ELSE LET r == CandClone(st, Head(secs), TRUE)
             pushed == [RefAdd(r.st, r.obj) EXCEPT !.cd[n].secs = Append(@, r.obj)]
         IN  CloneSecs(RefRemove(pushed, r.obj), n, Tail(secs))

\* Mutant of Stored: process stores the candidate itself in both modes.
StoredAlwaysOriginal(st, c) == [st |-> RefAdd(st, c), obj |-> c]

\* The handle process gives to push_back: in clone mode the handle returned
\* by c->clone(recursive), else a handle made from the pointer c.
Stored(st, c) ==
    IF clone THEN CandClone(st, c, recursive)
    ELSE [st |-> RefAdd(st, c), obj |-> c]

RECURSIVE Regrow(_, _)
\* The buffer grows: every handle is copied to the new storage and the old
\* handle is destroyed.
Regrow(st, es) ==
    IF es = <<>> THEN st
    ELSE Regrow(RefRemove(RefAdd(st, Head(es).obj), Head(es).obj), Tail(es))

\* container.push_back(h) for a temporary handle h to o: the buffer grows
\* when it is full, the handle is copied into it and the temporary destroyed.
PushBack(st, o) ==
    LET grown == IF Len(container) >= reserved THEN Regrow(st, container) ELSE st
    IN  RefRemove(RefAdd(grown, o), o)

\* The fields of a candidate other than its secondaries.
Fields(r) == [r EXCEPT !.secs = <<>>]

RECURSIVE Shape(_, _)
\* The secondary tree below c in the candidate fields cd: the fields of
\* every candidate, in order, without the objects' identities.
Shape(cd, c) ==
    <<Fields(cd[c]), [i \in 1..Len(cd[c].secs) |-> Shape(cd, cd[c].secs[i])]>>

\* What the claims need of a collector operation: its argument, the mode,
\* the counts before it and, when a clone was made, the tree cloned.
StoreOp(name, c) ==
    [op |-> name, c |-> c, clone |-> clone, recursive |-> recursive,
     pre |-> refCount, preAlive |-> alive,
     snap |-> IF clone /\ c \in Cands THEN Shape(cand, c) ELSE <<>>,
     preContainer |-> container]

\* The candidates the simulation owns.
SimCands == {1, 2}

\* The candidate the simulation is propagating.
Primaries == {1}

\* The number of candidate objects a clone of c takes.
CloneSize(c, rec) == IF rec THEN Cardinality(Nodes(Heap, c)) ELSE 1

\* process(Candidate *c) by one thread, from entering the critical region to
\* leaving it.
StoreCandidate(c) ==
    /\ ctor.overload # 0
    /\ traj.phase = "idle"
    /\ Len(container) < MaxStore
    /\ alive[c]
    /\ clone => Cardinality(Free(Heap)) >= CloneSize(c, recursive)
    /\ LET s == Stored(Heap, c)
       IN  /\ SetHeap(PushBack(s.st, s.obj))
           /\ container' = PushEntry(container, [obj |-> s.obj, src |-> c,
                                                 isClone |-> clone,
                                                 rec |-> clone /\ recursive])
    /\ lastStore' = StoreOp("process", c)
    /\ UNCHANGED <<ctor, clone, recursive, reserved, cloneSet, modifyContainer,
                   cpc, cend, done, mlist, traj, replay, file, loaded, outsideStore>>

\* The simulation moves a candidate it owns one step further, and ends it
\* (setActive(false)) once its trajectory has the length MaxLen.
Propagate(c) ==
    /\ cand[c].active
    /\ cand' = IF cand[c].len < MaxLen
               THEN [cand EXCEPT ![c].len = @ + 1]
               ELSE [cand EXCEPT ![c].active = FALSE]
    /\ UNCHANGED <<refCount, alive, deletions, mlist, traj, replay, lastStore,
                   file, loaded, collectorVars, outsideStore>>

\* Mutant of Passed: reprocess passes the stored object in both modes.
PassedStoredAlways(st, e) == [st |-> st, obj |-> e.obj]

\* What reprocess passes to action->process for the entry e: in clone mode
\* the handle returned by clone(false) on the stored candidate, else the
\* stored pointer.
Passed(st, e) ==
    IF clone THEN CandClone(st, e.obj, FALSE)
    ELSE [st |-> st, obj |-> e.obj]

\* One pass of the loop of reprocess, for the entry e: one action->process
\* call, after which the temporary handle of clone mode is destroyed. The
\* action looks at the candidate it is given; out lists, per call, the object
\* passed, the stored object it was made for, the fields and the number of
\* secondaries it showed, and the fields of the stored object.
ReplayOne(st, e, out) ==
    LET p == Passed(st, e)
        call == [obj |-> p.obj, of |-> e.obj,
                 fields |-> Fields(p.st.cd[p.obj]),
                 nsecs |-> Len(p.st.cd[p.obj].secs),
                 was |-> Fields(st.cd[e.obj])]
    IN  [st |-> IF clone THEN RefRemove(p.st, p.obj) ELSE p.st,
         out |-> Append(out, call)]

\* Mutant of Replayed: the loop ends after its first pass.
ReplayedFirstOnly(st, es, out) ==
    IF es = <<>> THEN [st |-> st, out |-> out] ELSE ReplayOne(st, Head(es), out)

RECURSIVE Replayed(_, _, _)
\* The loop of reprocess over the entries es, from container.begin() to
\* container.end().
Replayed(st, es, out) ==
    IF es = <<>> THEN [st |-> st, out |-> out]
    ELSE LET r == ReplayOne(st, Head(es), out)
         IN  Replayed(r.st, Tail(es), r.out)

\* Every entry of the buffer can be cloned: also when no temporary clone is
\* ever freed, each finds a free address.
CanReplay == clone => Cardinality(Free(Heap)) >= Len(container)

\* reprocess(Module *action)
Reprocess ==
    /\ ctor.overload # 0
    /\ traj.phase = "idle"
    /\ CanReplay
    /\ LET r == Replayed(Heap, container, <<>>)
       IN  /\ SetHeap(r.st)
           /\ replay' = r.out
    /\ lastStore' = StoreOp("reprocess", 0)
    /\ UNCHANGED <<collectorVars, mlist, traj, file, loaded, outsideStore>>

\* One line of the text output for a candidate with the fields f: the columns
\* trajectory length, particle id, created id, source id.
Line(f) == <<f.len, f.id, f.created, f.source>>

\* The candidate that load makes of one line.
Parse(l) == [id |-> l[2], active |-> TRUE, len |-> l[1], created |-> l[3],
             source |-> l[4], secs |-> <<>>]

\* dump(filename): a TextOutput of everything is the action of reprocess,
\* then the output is closed.
Dump ==
    /\ ctor.overload # 0
    /\ traj.phase = "idle"
    /\ CanReplay
    /\ LET r == Replayed(Heap, container, <<>>)
       IN  /\ SetHeap(r.st)
           /\ replay' = r.out
           /\ file' = [written |-> TRUE,
                       lines |-> [i \in 1..Len(r.out) |-> Line(r.out[i].fields)],
                       of |-> [i \in 1..Len(container) |-> cand[container[i].obj]]]
    /\ lastStore' = StoreOp("dump", 0)
    /\ UNCHANGED <<collectorVars, mlist, traj, loaded, outsideStore>>

\* load(filename) on a second, new collector: TextOutput::load gives it one
\* candidate per line of the file.
Load ==
    /\ file.written
    /\ loaded' = [written |-> TRUE, lines |-> file.lines,
                  of |-> [i \in 1..Len(file.lines) |-> Parse(file.lines[i])]]
    /\ UNCHANGED <<refCount, alive, deletions, cand, mlist, traj, replay, lastStore,
                   file, collectorVars, outsideStore>>

\* A primary proton (object 1, held by the simulation) with one secondary
\* (object 2, held by the primary): an electron created as a photon.
InitCands ==
    [c \in Cands |->
        IF c = 1 THEN [id |-> 2212, active |-> TRUE, len |-> 0, created |-> 2212,
                       source |-> 2212, secs |-> <<2>>]
        ELSE IF c = 2 THEN [id |-> 11, active |-> TRUE, len |-> 0, created |-> 22,
                            source |-> 2212, secs |-> <<>>]
        ELSE NoCand]

\* The module lists a caller of getTrajectory can hold.
Chains == {<<>>, <<"propagation">>, <<"propagation", "observer">>}

\* A simulation with its candidates, and no collector yet.
InitSimulation ==
    /\ build \in Builds
    /\ refCount = [c \in Cands |-> IF c \in SimCands THEN 1 ELSE 0]
    /\ alive = [c \in Cands |-> c \in SimCands]
    /\ deletions = [c \in Cands |-> 0]
    /\ cand = InitCands
    /\ traj = NoTraj
    /\ replay = <<>>
    /\ lastStore = NoStore
    /\ file = NoFile
    /\ loaded = NoFile
    /\ ThreadsInit
    /\ HandlesInit
    /\ CollectorInit
    /\ FilterInit
    /\ PerfInit
    /\ GridInit
    /\ RegionsInit
    /\ DriverInit
    /\ OutputInit

InitStore ==
    /\ InitSimulation
    /\ EmissionInit
    /\ mlist = <<>>

\* The simulation is still running: the buffer has not been replayed yet.
Filling == lastStore.op \in {"none", "process"} /\ ~file.written

\* The collector is built by ParticleCollector(MaxHint, true, true), after
\* which its members clone and recursive hold any value (see Construct). The
\* simulation fills the buffer; then the buffer is replayed, dumped and loaded.
NextStore ==
    \/ Filling /\ \E uc, ur \in BOOLEAN : Construct(4, MaxHint, TRUE, TRUE, uc, ur)
    \/ Filling /\ \E b \in BOOLEAN : SetClone(b)
    \/ Filling /\ \E c \in SimCands : StoreCandidate(c)
    \/ Filling /\ \E c \in Primaries : Propagate(c)
    \/ Reprocess
    \/ Dump
    \/ Load

\* One thread using a collector on the candidates of a simulation.
SpecStore == InitStore /\ [][NextStore]_vars

\* ------------------------------------------- ParticleCollector::getTrajectory
\* Candidate::restart(): active again, trajectory length 0; the created and
\* source snapshots stay. (What restart makes of the current state is not
\* modelled.)
Restart(f) == [f EXCEPT !.active = TRUE, !.len = 0]

\* ModuleList::add(module): the module becomes the last of the list.
ListAdd(l, m) == Append(l, m)

\* ModuleList::remove(k), for the k-th module of the list.
ListRemove(l, k) == SubSeq(l, 1, k - 1) \o SubSeq(l, k + 1, Len(l))

\* Mutant of TrajectoryCandidate: the clone is run as it is.
TrajectoryCandidateAsStored(st, i) == CandClone(st, container[i].obj, FALSE)

\* "c_tmp = container[i]->clone(); c_tmp->restart();" for the i-th entry.
TrajectoryCandidate(st, i) ==
    LET r == CandClone(st, container[i].obj, FALSE)
    IN  [st |-> [r.st EXCEPT !.cd[r.obj] = Restart(@)], obj |-> r.obj]

\* Mutant of RemovedModule: getTrajectory removes the first module.
RemovedModuleFirst(l) == 1

\* The module that "mlist->remove(mlist->size() - 1)" removes from l: the
\* last one.
RemovedModule(l) == Len(l)

\* getTrajectory(mlist, i, output) up to the call of mlist->run(c_tmp).
TrajectoryBegin(i) ==
    /\ ctor.overload # 0
    /\ traj.phase = "idle"
    /\ i \in 1..Len(container)
    /\ Free(Heap) # {}
    /\ LET r == TrajectoryCandidate(Heap, i)
           chain == ListAdd(mlist, "output")
       IN  /\ SetHeap(r.st)
           /\ mlist' = chain
           /\ traj' = [phase |-> "running", idx |-> i, tmp |-> r.obj,
                       start |-> r.st.cd[r.obj], chain |-> chain, before |-> mlist]
    /\ lastStore' = StoreOp("getTrajectory", container[i].obj)
    /\ UNCHANGED <<collectorVars, replay, file, loaded, outsideStore>>

\* ModuleList::run(c_tmp) moves the candidate on until it is not active.
TrajectoryRun ==
    /\ traj.phase = "running"
    /\ cand[traj.tmp].active
    /\ cand' = IF cand[traj.tmp].len < MaxLen
               THEN [cand EXCEPT ![traj.tmp].len = @ + 1]
               ELSE [cand EXCEPT ![traj.tmp].active = FALSE]
    /\ UNCHANGED <<refCount, alive, deletions, mlist, traj, replay, lastStore,
                   file, loaded, collectorVars, outsideStore>>

\* mlist->run(c_tmp) has returned: the module is removed and, at the end of
\* getTrajectory, the handle c_tmp destroyed.
TrajectoryEnd ==
    /\ traj.phase = "running"
    /\ ~cand[traj.tmp].active
    /\ mlist' = ListRemove(mlist, RemovedModule(mlist))
    /\ SetHeap(RefRemove(Heap, traj.tmp))
    /\ traj' = [traj EXCEPT !.phase = "idle"]
    /\ UNCHANGED <<collectorVars, replay, lastStore, file, loaded, outsideStore>>

InitTrajectory ==
    /\ InitSimulation
    /\ EmissionInit
    /\ mlist \in Chains

\* The simulation fills the buffer; then trajectories are asked for.
NextTrajectory ==
    \/ Filling /\ \E uc, ur \in BOOLEAN : Construct(4, MaxHint, TRUE, TRUE, uc, ur)
    \/ Filling /\ \E b \in BOOLEAN : SetClone(b)
    \/ Filling /\ \E c \in SimCands : StoreCandidate(c)
    \/ Filling /\ \E c \in Primaries : Propagate(c)
    \/ \E i \in 1..MaxStore : TrajectoryBegin(i)
    \/ TrajectoryRun
    \/ TrajectoryEnd

SpecTrajectory == InitTrajectory /\ [][NextTrajectory]_vars

\* ------------------------------------------------------ PerformanceModule
outsidePerf == <<build, refCount, alive, deletions, threadVars, handleVars,
                 collectorVars, filterVars, storeVars,
                    emissionVars, outputVars, driverVars,
    regionVars,
    gridVars>>

\* The durations a call can take (milliseconds between two readings of the
\* clock).
Durations == {0, 1}

\* add(Module *module): info.module = module, info.time = 0, push_back. It
\* is not synchronised with process: the wrapper is set up before use. The
\* k-th module added is named k.
PerfAdd ==
    /\ pghost.started = 0
    /\ ~report.done
    /\ Len(modules) < MaxModules
    /\ modules' = Append(modules, [module |-> Len(modules) + 1, time |-> 0])
    /\ pghost' = [pghost EXCEPT !.sums = Append(@, 0)]
    /\ UNCHANGED <<pmCalls, pmRegion, ppc, plocal, report, outsidePerf>>

\* process(Candidate *candidate) starts: "vector<double> times(modules.size())".
\* The candidate of the k-th call made is named k.
PerfBegin(t) ==
    /\ ppc[t] = "idle"
    /\ ~report.done
    /\ pghost.started < MaxPerf
    /\ ppc' = [ppc EXCEPT ![t] = "timing"]
    /\ plocal' = [plocal EXCEPT ![t] = [NoLocal EXCEPT !.cand = pghost.started + 1]]
    /\ pghost' = [pghost EXCEPT !.started = @ + 1]
    /\ UNCHANGED <<modules, pmCalls, pmRegion, report, outsidePerf>>

\* Mutant of Wrapped: the loop calls the first wrapped module every time.
WrappedFirst(i) == modules[1].module

\* "_module_info &m = modules[i]; ... m.module": the module of pass i.
Wrapped(i) == modules[i].module

\* One pass of the first loop of process: m.module->process(candidate)
\* between two readings of the clock, d apart, and times[i] = end - start.
PerfCall(t, d) ==
    /\ ppc[t] = "timing"
    /\ Len(plocal[t].times) < Len(modules)
    /\ LET i == Len(plocal[t].times) + 1
       IN  plocal' = [plocal EXCEPT
                         ![t].log = Append(@, [module |-> Wrapped(i),
                                               cand |-> plocal[t].cand]),
                         ![t].times = Append(@, d)]
    /\ UNCHANGED <<modules, pmCalls, pmRegion, ppc, pghost, report, outsidePerf>>

\* Mutant of PerfRegionFree: the merge without the critical region.
PerfRegionIgnored == TRUE

\* "#pragma omp critical(PerformanceModule)" can be entered.
PerfRegionFree == pmRegion = 0

\* The first loop is over; the thread enters the critical region, where
\* "m.time += times[i]" and "calls++" start by reading the totals.
PerfMergeEnter(t) ==
    /\ ppc[t] = "timing"
    /\ Len(plocal[t].times) = Len(modules)
    /\ PerfRegionFree
    /\ pmRegion' = t
    /\ ppc' = [ppc EXCEPT ![t] = "merging"]
    /\ plocal' = [plocal EXCEPT
                      ![t].seen = [i \in 1..Len(modules) |-> modules[i].time],
                      ![t].seenCalls = pmCalls]
    /\ UNCHANGED <<modules, pmCalls, pghost, report, outsidePerf>>

\* The totals are written, the thread leaves the region and process returns.
PerfMergeLeave(t) ==
    /\ ppc[t] = "merging"
    /\ modules' = [i \in 1..Len(modules) |->
                      [modules[i] EXCEPT !.time = plocal[t].seen[i] + plocal[t].times[i]]]
    /\ pmCalls' = plocal[t].seenCalls + 1
    /\ pmRegion' = 0
    /\ ppc' = [ppc EXCEPT ![t] = "idle"]
    /\ pghost' = [pghost EXCEPT
                      !.completed = @ + 1,
                      !.sums = [i \in 1..Len(modules) |-> @[i] + plocal[t].times[i]],
                      !.last[t] = plocal[t]]
    /\ plocal' = [plocal EXCEPT ![t] = NoLocal]
    /\ UNCHANGED <<report, outsidePerf>>

\* Mutant of TotalTime: "total = m.time" in place of "total += m.time".
TotalTimeOfLast(ms) == IF ms = <<>> THEN 0 ELSE ms[Len(ms)].time

RECURSIVE TotalTime(_)
\* The first loop of ~PerformanceModule: total += m.time over the modules.
TotalTime(ms) == IF ms = <<>> THEN 0 ELSE Head(ms).time + TotalTime(Tail(ms))

\* a / b on double operands: the quotient, kept exact as a fraction, when b
\* is not zero; with b zero the division has no value, and IEEE arithmetic
\* gives not-a-number for 0 / 0 and infinity otherwise.
Quotient(a, b) ==
    IF b # 0 THEN [kind |-> "finite", num |-> a, den |-> b]
    ELSE [kind |-> IF a = 0 THEN "nan" ELSE "inf", num |-> a, den |-> b]

\* The second loop of ~PerformanceModule: one line per wrapped module, with
\* "1000 * m.time / total" (which the line shows rounded to a tenth of a
\* percent) and "m.time / calls".
ReportLines(ms, total, n) ==
    [i \in 1..Len(ms) |-> [share |-> Quotient(1000 * ms[i].time, total),
                           average |-> Quotient(ms[i].time, n)]]

\* ~PerformanceModule(), once no thread uses the wrapper any more.
PerfTeardown ==
    /\ ~report.done
    /\ \A t \in Threads : ppc[t] = "idle"
    /\ report' = [done |-> TRUE, total |-> TotalTime(modules),
                  lines |-> ReportLines(modules, TotalTime(modules), pmCalls)]
    /\ UNCHANGED <<modules, pmCalls, pmRegion, ppc, plocal, pghost, outsidePerf>>

InitPerf ==
    /\ build = "GNUC"
    /\ ReferencedInit
    /\ ThreadsInit
    /\ HandlesInit
    /\ CollectorInit
    /\ FilterInit
    /\ StoreInit
    /\ PerfInit
    /\ GridInit
    /\ RegionsInit
    /\ DriverInit
    /\ OutputInit
    /\ EmissionInit

NextPerf ==
    \/ PerfAdd
    \/ \E t \in Threads : PerfBegin(t)
    \/ \E t \in Threads, d \in Durations : PerfCall(t, d)
    \/ \E t \in Threads : PerfMergeEnter(t)
    \/ \E t \in Threads : PerfMergeLeave(t)
    \/ PerfTeardown

\* A wrapper set up with up to MaxModules modules, used by NThreads threads
\* for MaxPerf process calls in all, and then destroyed.
SpecPerf == InitPerf /\ [][NextPerf]_vars

\* --------------------------------------------------------- ParticleFilter
\* The particle identifiers used: electron, positron, photon, proton.
ParticleIds == {11, -11, 22, 2212}

\* Mutant of NotFound: the test of process inverted.
NotFoundInverted(S, x) == x \in S

\* "ids.find(x) == ids.end()"
NotFound(S, x) == x \notin S

\* addId(int id): ids.insert(id)
AddId(x) ==
    /\ ids' = ids \cup {x}
    /\ fmut' = [op |-> "addId", id |-> x, pre |-> ids, checked |-> "none"]
    /\ UNCHANGED <<fcall, outsideFilter>>

\* removeId(int id): ids.erase(id)
RemoveId(x) ==
    /\ ids' = ids \ {x}
    /\ fmut' = [op |-> "removeId", id |-> x, pre |-> ids, checked |-> "none"]
    /\ UNCHANGED <<fcall, outsideFilter>>

\* Mutant of ThroughGetIds: getIds returns a copy of the set.
ThroughCopy(member, changed) == member

\* "std::set<int> &getIds() { return ids; }": the caller is given the member
\* itself, so that when it has made the returned set into changed, the
\* member is changed.
ThroughGetIds(member, changed) == changed

\* getIds().insert(x)
GetIdsInsert(x) ==
    /\ ids' = ThroughGetIds(ids, ids \cup {x})
    /\ fmut' = [op |-> "insert", id |-> x, pre |-> ids, checked |-> "none"]
    /\ UNCHANGED <<fcall, outsideFilter>>

\* getIds().erase(x)
GetIdsErase(x) ==
    /\ ids' = ThroughGetIds(ids, ids \ {x})
    /\ fmut' = [op |-> "erase", id |-> x, pre |-> ids, checked |-> "none"]
    /\ UNCHANGED <<fcall, outsideFilter>>

\* process(Candidate*) on a candidate whose current id is x: reject(candidate)
\* when x is not found in ids, accept(candidate) otherwise.
FilterProcess(x) ==
    /\ fcall' = IF NotFound(ids, x)
                THEN [op |-> "process", id |-> x, ids |-> ids, accepts |-> 0, rejects |-> 1]
                ELSE [op |-> "process", id |-> x, ids |-> ids, accepts |-> 1, rejects |-> 0]
    /\ fmut' = IF x # fmut.id THEN fmut
               ELSE [fmut EXCEPT !.checked = IF NotFound(ids, x) THEN "reject" ELSE "accept"]
    /\ UNCHANGED <<ids, outsideFilter>>

\* ParticleFilter(const std::set<int> &ids), ParticleFilter() being the
\* empty set.
InitFilter ==
    /\ build = "GNUC"
    /\ ReferencedInit
    /\ ThreadsInit
    /\ HandlesInit
    /\ CollectorInit
    /\ StoreInit
    /\ PerfInit
    /\ GridInit
    /\ RegionsInit
    /\ DriverInit
    /\ OutputInit
    /\ EmissionInit
    /\ ids \in SUBSET ParticleIds
    /\ fcall = NoProcess
    /\ fmut = NoMutator

NextFilter ==
    \/ \E x \in ParticleIds : AddId(x)
    \/ \E x \in ParticleIds : RemoveId(x)
    \/ \E x \in ParticleIds : GetIdsInsert(x)
    \/ \E x \in ParticleIds : GetIdsErase(x)
    \/ \E x \in ParticleIds : FilterProcess(x)

SpecFilter == InitFilter /\ [][NextFilter]_vars

\* ------------------------------------------------------ EmissionMapFiller
\* The values of the member emissionMap: null, or the one emission map the
\* threads share.
EmissionMaps == {0, 1}

outsideEmission == <<build, refCount, alive, deletions, threadVars, handleVars,
                     collectorVars, filterVars, storeVars, perfVars, outputVars, driverVars,
                     regionVars, gridVars>>

\* setEmissionMap(EmissionMap *emissionMap), called between runs: no thread
\* is inside process.
SetEmissionMap(m) ==
    /\ \A t \in Threads : epc[t].at = "idle"
    /\ emissionMap' = m
    /\ UNCHANGED <<emRegion, epc, emCalls, outsideEmission>>

\* Mutant of EmissionMapSet: process takes the branch whatever the pointer.
EmissionMapSetAlways(m) == TRUE

\* "if (emissionMap)"
EmissionMapSet(m) == m # 0

\* process(Candidate *candidate) up to the critical region: the test of the
\* member. With a null pointer the call returns at once.
EmProcess(t, c) ==
    /\ epc[t].at = "idle"
    /\ emCalls < MaxFill
    /\ alive[c]
    /\ emCalls' = emCalls + 1
    /\ epc' = [epc EXCEPT ![t] =
                 [at |-> IF EmissionMapSet(emissionMap) THEN "waiting" ELSE "idle",
                  c |-> c, active |-> cand[c].active, set |-> emissionMap # 0,
                  fills |-> <<>>, entries |-> 0,
                  returned |-> ~EmissionMapSet(emissionMap)]]
    /\ UNCHANGED <<emissionMap, emRegion, outsideEmission>>

\* Mutant of EmRegionFree: the named region excludes nobody.
EmRegionIgnored == TRUE

\* "#pragma omp critical(EmissionMap)": a thread enters when no thread holds
\* the region.
EmRegionFree == emRegion = 0

\* "candidate->source": the state handed to fillMap (its particle id).
FillArgument(c) == cand[c].source

\* The thread enters the region and calls emissionMap->fillMap(candidate->source).
EmFillBegin(t) ==
    /\ epc[t].at = "waiting"
    /\ EmRegionFree
    /\ emRegion' = t
    /\ epc' = [epc EXCEPT ![t].at = "filling",
                          ![t].entries = @ + 1,
                          ![t].fills = Append(@, [map |-> emissionMap,
                                                  state |-> FillArgument(epc[t].c)])]
    /\ UNCHANGED <<emissionMap, emCalls, outsideEmission>>

\* fillMap returns, the thread leaves the region and process returns.
EmFillEnd(t) ==
    /\ epc[t].at = "filling"
    /\ emRegion' = 0
    /\ epc' = [epc EXCEPT ![t].at = "idle", ![t].returned = TRUE]
    /\ UNCHANGED <<emissionMap, emCalls, outsideEmission>>

\* A filler built with a map or with a null pointer, and the candidates of
\* a simulation.
InitEmission ==
    /\ InitSimulation
    /\ mlist = <<>>
    /\ emissionMap \in EmissionMaps
    /\ emRegion = 0
    /\ epc = [t \in Threads |-> NoFill]
    /\ emCalls = 0

\* NThreads threads call process, MaxFill times in all, on the candidates of
\* the simulation while it propagates them; the map is set between calls.
NextEmission ==
    \/ \E m \in EmissionMaps : SetEmissionMap(m)
    \/ \E t \in Threads, c \in SimCands : EmProcess(t, c)
    \/ \E t \in Threads : EmFillBegin(t)
    \/ \E t \in Threads : EmFillEnd(t)
    \/ \E c \in Primaries : Propagate(c)

SpecEmission == InitEmission /\ [][NextEmission]_vars

\* ------------------------------------ the three modules on one simulation
\* A filter with an empty id set, a filler with a map and no collector yet,
\* and the candidates of a simulation.
InitModules ==
    /\ InitSimulation
    /\ build = "GNUC"
    /\ mlist = <<>>
    /\ emissionMap = 1
    /\ emRegion = 0
    /\ epc = [t \in Threads |-> NoFill]
    /\ emCalls = 0

\* The simulation propagates its primary until it is inactive; meanwhile and
\* afterwards a ParticleFilter, an EmissionMapFiller and a ParticleCollector
\* are given its candidates.
NextModules ==
    \/ \E c \in Primaries : Propagate(c)
    \/ \E c \in SimCands : FilterProcess(cand[c].id)
    \/ \E t \in Threads, c \in SimCands : EmProcess(t, c)
    \/ \E t \in Threads : EmFillBegin(t)
    \/ \E t \in Threads : EmFillEnd(t)
    \/ \E n \in BufferHints : Construct(2, n, FALSE, FALSE, FALSE, FALSE)
    \/ \E c \in SimCands : StoreCandidate(c)

\* A filter, a filler and a collector built by ParticleCollector(nBuffer),
\* each given the candidates of a simulation at any time of their life.
SpecModules == InitModules /\ [][NextModules]_vars

\* --------------------------------------------------------- PhotonOutput1D
outsideOutput == <<build, refCount, alive, deletions, threadVars, handleVars,
                   collectorVars, filterVars, perfVars, emissionVars, driverVars,
                   regionVars, gridVars>>

\* File names, as sequences of characters.
Filenames == {<<"o", ".", "g", "z">>, <<"o", ".", "t", "x", "t">>, <<"g", "z">>,
              <<"o", ".", "g", "z", ".", "t">>, <<".", "g", "z">>}

\* kiss::ends_with(s, suffix)
EndsWith(s, suffix) ==
    Len(s) >= Len(suffix) /\ SubSeq(s, Len(s) - Len(suffix) + 1, Len(s)) = suffix

\* What the constructor taking a file name writes to the stream: the line of
\* column names, then the lines explaining them.
Header == <<[of |-> 0, part |-> "columns"], [of |-> 0, part |-> "legend"]>>

\* Mutant of Gzip: the stream is left as it is in a build without
\* compression support.
GzipSilent(zlib) == [threw |-> FALSE, wrapped |-> zlib]

\* gzip(): with CRPROPA_HAVE_ZLIB the stream is wrapped in an ogzstream,
\* without it std::runtime_error is thrown.
Gzip(zlib) == [threw |-> ~zlib, wrapped |-> zlib]

\* Constructor overload ov: 1 is PhotonOutput1D() on std::cout, 2 is
\* (std::ostream &), 3 is (const std::string &filename). Overload 3 opens
\* the file, calls gzip() when the name ends with ".gz" and then writes the
\* header; gzip() wraps the stream in a build with compression support and
\* throws std::runtime_error in a build without.
OutConstruct(ov, fn) ==
    /\ output.ctor = 0
    /\ LET gz == ov = 3 /\ EndsWith(fn, <<".", "g", "z">>)
           threw == gz /\ Gzip(haveZlib).threw
       IN  output' = [NoOutput EXCEPT
                      !.ctor = ov, !.threw = threw,
                      !.filename = IF ov = 3 THEN fn ELSE <<>>,
                      !.gz = gz /\ Gzip(haveZlib).wrapped,
                      !.stream = IF ov = 3 /\ ~threw THEN Header ELSE <<>>,
                      !.out = CASE ov = 1 -> "cout"
                                [] ov = 2 -> "ostream"
                                [] gz /\ Gzip(haveZlib).wrapped -> "ogzstream"
                                [] OTHER -> "outfile"]
    /\ UNCHANGED <<haveZlib, fileOutput, opc, outCalls, storeVars, outsideOutput>>

\* Mutant of OtherParticle: the test without abs.
OtherParticleSigned(pid) == pid # 22 /\ pid # 11

\* "(pid != 22) and (abs(pid) != 11)": the particle is neither a photon nor
\* an electron or positron.
OtherParticle(pid) == pid # 22 /\ (IF pid < 0 THEN -pid ELSE pid) # 11

\* The record formatted into the buffer: of the fields the model keeps, the
\* ids of the current, the created and the source state, in this order.
Buffer(c) == <<cand[c].id, cand[c].created, cand[c].source>>

\* process(Candidate *candidate) up to the critical region: the early return
\* for the other particles, else the record formatted into the local buffer.
\* A candidate is driven by one worker thread at a time.
OutProcess(t, c) ==
    /\ opc[t].at = "idle"
    /\ outCalls < MaxOut
    /\ output.ctor # 0 /\ ~output.threw /\ ~output.destroyed
    /\ alive[c]
    /\ \A u \in Threads \ {t} : opc[u].at # "idle" => opc[u].c # c
    /\ outCalls' = outCalls + 1
    /\ opc' = [opc EXCEPT ![t] =
                 IF OtherParticle(cand[c].id)
                 THEN [NoWrite EXCEPT !.call = outCalls + 1, !.c = c, !.returned = TRUE]
                 ELSE [NoWrite EXCEPT !.call = outCalls + 1, !.c = c,
                                      !.at = "formatted", !.buffer = Buffer(c)]]
    /\ UNCHANGED <<haveZlib, output, fileOutput, storeVars, outsideOutput>>

\* Mutant of FileOutputFree: the named region excludes nobody.
FileOutputIgnored == TRUE

\* "#pragma omp critical(FileOutput)": a thread enters when no thread holds
\* the region.
FileOutputFree == fileOutput = 0

\* What a call through the pointer p can do: through a null pointer the
\* behaviour is undefined, the program may stop there or go on.
Through(p) == IF p = "null" THEN {"crashed", "writing"} ELSE {"writing"}

\* The thread enters the region and calls out->write(buffer, p): the stream
\* receives the first characters of the buffer.
OutWriteBegin(t) ==
    /\ opc[t].at = "formatted"
    /\ FileOutputFree
    /\ fileOutput' = t
    /\ \E at \in Through(output.out) :
           opc' = [opc EXCEPT ![t].at = at, ![t].entries = @ + 1,
                              ![t].writes = @ + 1]
    /\ output' = [output EXCEPT !.stream =
                    Append(@, [of |-> opc[t].call, part |-> "begin",
                               text |-> SubSeq(opc[t].buffer, 1, 1)]),
                                !.wild = @ \/ output.out = "null"]
    /\ UNCHANGED <<haveZlib, outCalls, storeVars, outsideOutput>>

\* The stream receives the rest of the buffer and write returns; the thread
\* leaves the region, calls candidate->setActive(false) and returns.
OutWriteEnd(t) ==
    /\ opc[t].at = "writing"
    /\ output' = [output EXCEPT !.stream =
                    Append(@, [of |-> opc[t].call, part |-> "end",
                               text |-> Tail(opc[t].buffer)])]
    /\ fileOutput' = 0
    /\ cand' = [cand EXCEPT ![opc[t].c].active = FALSE]
    /\ opc' = [opc EXCEPT ![t].at = "idle", ![t].returned = TRUE]
    /\ UNCHANGED <<haveZlib, outCalls, mlist, traj, replay, lastStore, file, loaded,
                   outsideOutput>>

\* close() on the output o: with CRPROPA_HAVE_ZLIB, when out is an
\* ogzstream (the dynamic_cast of a null or other pointer gives null) it is
\* closed and deleted and out set to 0; then outfile.flush().
Closed(o, zlib) ==
    IF zlib /\ o.out = "ogzstream"
    THEN [o EXCEPT !.out = "null", !.freed = @ + 1, !.closes = @ + 1]
    ELSE [o EXCEPT !.closes = @ + 1]

\* close(), called when no thread is inside process.
OutClose ==
    /\ output.ctor # 0 /\ ~output.threw /\ ~output.destroyed
    /\ output.closes < MaxClose
    /\ \A t \in Threads : opc[t].at = "idle"
    /\ output' = Closed(output, haveZlib)
    /\ UNCHANGED <<haveZlib, fileOutput, opc, outCalls, storeVars, outsideOutput>>

\* ~PhotonOutput1D() { close(); }
OutDestroy ==
    /\ output.ctor # 0 /\ ~output.threw /\ ~output.destroyed
    /\ \A t \in Threads : opc[t].at = "idle"
    /\ output' = [Closed(output, haveZlib) EXCEPT !.destroyed = TRUE]
    /\ UNCHANGED <<haveZlib, fileOutput, opc, outCalls, storeVars, outsideOutput>>

\* No PhotonOutput1D yet, in a build with or without compression support,
\* and two candidates of any particle kind.
InitOutput ==
    /\ build = "GNUC"
    /\ refCount = [c \in Cands |-> IF c \in SimCands THEN 1 ELSE 0]
    /\ alive = [c \in Cands |-> c \in SimCands]
    /\ deletions = [c \in Cands |-> 0]
    /\ \E f \in [SimCands -> ParticleIds] :
           cand = [c \in Cands |-> IF c \in SimCands
                                   THEN [InitCands[c] EXCEPT !.id = f[c]]
                                   ELSE NoCand]
    /\ mlist = <<>>
    /\ traj = NoTraj
    /\ replay = <<>>
    /\ lastStore = NoStore
    /\ file = NoFile
    /\ loaded = NoFile
    /\ ThreadsInit
    /\ HandlesInit
    /\ CollectorInit
    /\ FilterInit
    /\ PerfInit
    /\ GridInit
    /\ RegionsInit
    /\ EmissionInit
    /\ DriverInit
    /\ haveZlib \in BOOLEAN
    /\ output = NoOutput
    /\ fileOutput = 0
    /\ opc = [t \in Threads |-> NoWrite]
    /\ outCalls = 0

NextOutput ==
    \/ \E ov \in {1, 2} : OutConstruct(ov, <<>>)
    \/ \E fn \in Filenames : OutConstruct(3, fn)
    \/ \E t \in Threads, c \in SimCands : OutProcess(t, c)
    \/ \E t \in Threads : OutWriteBegin(t)
    \/ \E t \in Threads : OutWriteEnd(t)

\* A PhotonOutput1D is constructed, if its constructor does not throw, and
\* NThreads threads call process on it, MaxOut times in all.
SpecOutput == InitOutput /\ [][NextOutput]_vars

NextClose ==
    \/ \E fn \in Filenames : OutConstruct(3, fn)
    \/ \E t \in Threads, c \in SimCands : OutProcess(t, c)
    \/ \E t \in Threads : OutWriteBegin(t)
    \/ \E t \in Threads : OutWriteEnd(t)
    \/ OutClose
    \/ OutDestroy

\* The same for an output to a file, with close() called any number of
\* times between the process calls, and the destructor at the end.
SpecClose == InitOutput /\ [][NextClose]_vars

\* ------------------------------------------------- pipeline traversal (run)
outsideDriver == <<build, refCount, alive, deletions, threadVars, handleVars,
                   collectorVars, filterVars, storeVars, perfVars, emissionVars,
                   outputVars, regionVars, gridVars>>

\* The top-level candidate given to a run: active, with no secondary yet.
\* Of a node: its parent (0: none) and depth, the active flag, the trajectory
\* length, its secondaries in creation order, the number of passes of the
\* chain made on it, and whether the driver has finished its own processing
\* and whether the driver has come to it.
Root == [parent |-> 0, depth |-> 0, active |-> TRUE, len |-> 0, secs |-> <<>>,
         passes |-> 0, finished |-> FALSE, visited |-> TRUE]

\* The deterministic module chains a run is given.
DriverChains == {<<>>, <<"propagation">>, <<"interaction">>,
                 <<"propagation", "interaction">>, <<"interaction", "propagation">>}

\* What module m does to node n of the tree tr: "propagation" moves an
\* active candidate one step further and deactivates it once its trajectory
\* has the length MaxLen; "interaction" appends one new secondary to a
\* candidate above the depth MaxDepth.
Apply(m, tr, n) ==
    IF m = "propagation"
    THEN IF ~tr[n].active THEN tr
         ELSE IF tr[n].len < MaxLen THEN [tr EXCEPT ![n].len = @ + 1]
         ELSE [tr EXCEPT ![n].active = FALSE]
    ELSE IF m = "interaction" /\ tr[n].depth < MaxDepth
    THEN Append([tr EXCEPT ![n].secs = Append(@, Len(tr) + 1)],
                [Root EXCEPT !.parent = n, !.depth = tr[n].depth + 1,
                             !.visited = FALSE])
    ELSE tr

RECURSIVE RunChain(_, _, _)
\* One pass of the full chain ms on node n, each module in declared order.
RunChain(ms, tr, n) ==
    IF ms = <<>> THEN tr ELSE RunChain(Tail(ms), Apply(Head(ms), tr, n), n)

\* Mutant of Runnable: the chain is repeated whatever the active flag.
RunnableInactive(node) == node.passes < MaxSteps

\* The chain is run on a node (again) while it is active and the step budget
\* MaxSteps is not exhausted.
Runnable(node) == node.active /\ node.passes < MaxSteps

\* Mutant of Child: the secondaries are taken last created first.
ChildLastFirst(node, k) == node.secs[Len(node.secs) + 1 - k]

\* The k-th secondary the traversal descends into: in creation order.
Child(node, k) == node.secs[k]

\* Mutant of SecondariesLeft: the last secondary is left out.
SecondariesLeftButLast(node, k) == k < Len(node.secs)

\* The traversal of the secondaries goes on to the k-th.
SecondariesLeft(node, k) == k <= Len(node.secs)

\* The node the driver of run r is at, and how far it is with it: k = 0
\* while the chain is run on the node itself, then the next secondary.
Top(r) == drv[r].stack[Len(drv[r].stack)]

\* One pass of the chain on the node the driver is at.
DriverPass(r) ==
    /\ drv[r].stack # <<>>
    /\ Top(r).k = 0
    /\ Runnable(tree[r][Top(r).node])
    /\ LET n == Top(r).node
       IN  /\ tree' = [tree EXCEPT ![r] =
                         [RunChain(mlist, tree[r], n) EXCEPT ![n].passes = @ + 1]]
           /\ drv' = [drv EXCEPT ![r].log =
                        @ \o [i \in 1..Len(mlist) |-> [m |-> mlist[i], node |-> n]]]
    /\ UNCHANGED outsideDriver

\* The node is inactive or the budget exhausted: its own processing is
\* finished, and the driver turns to its secondaries.
DriverOwnDone(r) ==
    /\ drv[r].stack # <<>>
    /\ Top(r).k = 0
    /\ ~Runnable(tree[r][Top(r).node])
    /\ tree' = [tree EXCEPT ![r][Top(r).node].finished = TRUE]
    /\ drv' = [drv EXCEPT ![r].stack[Len(drv[r].stack)].k = 1]
    /\ UNCHANGED outsideDriver

\* The same traversal is applied to the next secondary.
DriverDescend(r) ==
    /\ drv[r].stack # <<>>
    /\ Top(r).k >= 1
    /\ SecondariesLeft(tree[r][Top(r).node], Top(r).k)
    /\ LET c == Child(tree[r][Top(r).node], Top(r).k)
       IN  /\ tree' = [tree EXCEPT ![r][c].visited = TRUE]
           /\ drv' = [drv EXCEPT ![r].stack =
                        Append([@ EXCEPT ![Len(@)].k = @ + 1], [node |-> c, k |-> 0])]
    /\ UNCHANGED outsideDriver

\* All secondaries of the node have been traversed: back to its parent, or,
\* from the top-level candidate, the run returns.
DriverReturn(r) ==
    /\ drv[r].stack # <<>>
    /\ Top(r).k >= 1
    /\ ~SecondariesLeft(tree[r][Top(r).node], Top(r).k)
    /\ drv' = [drv EXCEPT ![r].stack = SubSeq(@, 1, Len(@) - 1),
                          ![r].done = Len(drv[r].stack) = 1]
    /\ UNCHANGED <<tree, outsideDriver>>

\* Two runs of one chain, each on its own top-level candidate, the two
\* candidates being equal.
InitDriver ==
    /\ build = "GNUC"
    /\ ReferencedInit
    /\ ThreadsInit
    /\ HandlesInit
    /\ CollectorInit
    /\ FilterInit
    /\ PerfInit
    /\ GridInit
    /\ RegionsInit
    /\ EmissionInit
    /\ OutputInit
    /\ cand = [c \in Cands |-> NoCand]
    /\ mlist \in DriverChains
    /\ traj = NoTraj
    /\ replay = <<>>
    /\ lastStore = NoStore
    /\ file = NoFile
    /\ loaded = NoFile
    /\ tree = [r \in Runs |-> <<Root>>]
    /\ drv = [r \in Runs |-> [NoRun EXCEPT !.stack = <<[node |-> 1, k |-> 0]>>]]

NextDriver ==
    \/ \E r \in Runs : DriverPass(r)
    \/ \E r \in Runs : DriverOwnDone(r)
    \/ \E r \in Runs : DriverDescend(r)
    \/ \E r \in Runs : DriverReturn(r)

\* The two runs, on two worker threads, in any interleaving.
SpecDriver == InitDriver /\ [][NextDriver]_vars

\* The same, every worker thread going on as long as it can.
SpecDriverFair ==
    /\ SpecDriver
    /\ \A r \in Runs : WF_vars(DriverPass(r) \/ DriverOwnDone(r)
                                  \/ DriverDescend(r) \/ DriverReturn(r))

\* ----------------------------- the named critical regions on a module chain
outsideRegions == <<build, refCount, alive, deletions, pc, cur, last, hist, calls,
                    handleVars, ctor, clone, recursive, reserved, cloneSet, container,
                    cpc, cend, done, filterVars, storeVars, modules, pmCalls, ppc,
                    plocal, pghost, report, emissionMap, epc, emCalls, haveZlib,
                    output, opc, outCalls, driverVars, gridVars>>

\* The names of the "#pragma omp critical(...)" regions of the modules and of
\* the counter's fallback variant.
Regions == {"ModifyContainer", "FileOutput", "PerformanceModule", "EmissionMap",
            "newRef"}

\* The thread inside region r, 0 when it is free.
Holder(r) ==
    CASE r = "ModifyContainer" -> modifyContainer
      [] r = "FileOutput" -> fileOutput
      [] r = "PerformanceModule" -> pmRegion
      [] r = "EmissionMap" -> emRegion
      [] r = "newRef" -> region

SetHolder(r, v) ==
    /\ modifyContainer' = IF r = "ModifyContainer" THEN v ELSE modifyContainer
    /\ fileOutput' = IF r = "FileOutput" THEN v ELSE fileOutput
    /\ pmRegion' = IF r = "PerformanceModule" THEN v ELSE pmRegion
    /\ emRegion' = IF r = "EmissionMap" THEN v ELSE emRegion
    /\ region' = IF r = "newRef" THEN v ELSE region

\* "#pragma omp critical(r) { inner }": enter r, do inner, leave r.
Critical(r, inner) ==
    <<[op |-> "enter", region |-> r]>> \o inner \o <<[op |-> "leave", region |-> r]>>

\* One addReference or removeReference: the region newRef in the fallback
\* variant, one atomic operation in the other two.
CounterOps == IF build = "FALLBACK" THEN Critical("newRef", <<>>) ELSE <<>>

\* ParticleCollector::process: inside ModifyContainer, push_back makes a
\* handle of the candidate (addReference); of a clone, the handle clone()
\* returns is copied into the buffer and released as well.
CollectorOps(cl) ==
    Critical("ModifyContainer",
             IF cl THEN CounterOps \o CounterOps \o CounterOps ELSE CounterOps)

\* PhotonOutput1D::process: the write inside FileOutput, after the early
\* return for other particles.
OutputOps(pid) == IF OtherParticle(pid) THEN <<>> ELSE Critical("FileOutput", <<>>)

\* EmissionMapFiller::process: fillMap inside EmissionMap when a map is set.
FillerOps == IF EmissionMapSet(emissionMap) THEN Critical("EmissionMap", <<>>) ELSE <<>>

PerfOpsInside(inner) == Critical("PerformanceModule", inner)

\* PerformanceModule::process: the calls of its modules first, then the
\* merge of the times inside PerformanceModule.
PerfOps(inner) == inner \o Critical("PerformanceModule", <<>>)

RECURSIVE ProcessOps(_, _), ChainOps(_, _)
\* The region operations of module m's process on a candidate of id pid.
ProcessOps(m, pid) ==
    CASE m.kind = "ParticleCollector" -> CollectorOps(m.clone)
      [] m.kind = "PhotonOutput1D" -> OutputOps(pid)
      [] m.kind = "EmissionMapFiller" -> FillerOps
      [] m.kind = "PerformanceModule" -> PerfOps(ChainOps(m.modules, pid))

\* "for (i...) modules[i]->process(candidate)": one module after the other.
ChainOps(ms, pid) ==
    IF ms = <<>> THEN <<>> ELSE ProcessOps(Head(ms), pid) \o ChainOps(Tail(ms), pid)

Collector(cl) == [kind |-> "ParticleCollector", clone |-> cl, modules |-> <<>>]
Leaf(k) == [kind |-> k, clone |-> FALSE, modules |-> <<>>]
Performance(ms) == [kind |-> "PerformanceModule", clone |-> FALSE, modules |-> ms]

\* The chains run: each module alone or after another, and a
\* PerformanceModule around each of the others and around another
\* PerformanceModule.
RegionChains ==
    {<<Collector(FALSE), Leaf("PhotonOutput1D")>>,
     <<Leaf("EmissionMapFiller"), Collector(TRUE)>>,
     <<Performance(<<Collector(FALSE)>>)>>,
     <<Performance(<<Leaf("PhotonOutput1D")>>), Collector(TRUE)>>,
     <<Performance(<<Leaf("EmissionMapFiller")>>)>>,
     <<Performance(<<Performance(<<Collector(TRUE), Leaf("PhotonOutput1D")>>),
                     Leaf("EmissionMapFiller")>>)>>}

\* Thread t calls process of the chain on a candidate of id pid.
WalkBegin(t, pid) ==
    /\ walk[t].prog = <<>>
    /\ walk' = [walk EXCEPT ![t].prog = ChainOps(mchain, pid)]
    /\ UNCHANGED <<mchain, modifyContainer, fileOutput, pmRegion, emRegion, region,
                   outsideRegions>>

\* Thread t enters the region its call has reached, once that region is free.
WalkEnter(t) ==
    /\ walk[t].prog # <<>>
    /\ Head(walk[t].prog).op = "enter"
    /\ Holder(Head(walk[t].prog).region) = 0
    /\ SetHolder(Head(walk[t].prog).region, t)
    /\ walk' = [walk EXCEPT ![t].prog = Tail(@)]
    /\ UNCHANGED <<mchain, outsideRegions>>

\* Thread t leaves the region it entered last.
WalkLeave(t) ==
    /\ walk[t].prog # <<>>
    /\ Head(walk[t].prog).op = "leave"
    /\ Holder(Head(walk[t].prog).region) = t
    /\ SetHolder(Head(walk[t].prog).region, 0)
    /\ walk' = [walk EXCEPT ![t].prog = Tail(@)]
    /\ UNCHANGED <<mchain, outsideRegions>>

\* A chain of modules in one of the three builds, the filler with or without
\* a map, every region free.
InitRegions ==
    /\ build \in Builds
    /\ ReferencedInit
    /\ ThreadsInit
    /\ HandlesInit
    /\ CollectorInit
    /\ FilterInit
    /\ StoreInit
    /\ PerfInit
    /\ GridInit
    /\ OutputInit
    /\ DriverInit
    /\ emissionMap \in EmissionMaps
    /\ emRegion = 0
    /\ epc = [t \in Threads |-> NoFill]
    /\ emCalls = 0
    /\ mchain \in RegionChains
    /\ walk = [t \in Threads |-> NoWalk]

NextRegions ==
    \/ \E t \in Threads, pid \in ParticleIds : WalkBegin(t, pid)
    \/ \E t \in Threads : WalkEnter(t)
    \/ \E t \in Threads : WalkLeave(t)

\* NThreads threads call process of the chain again and again.
SpecRegions == InitRegions /\ [][NextRegions]_vars

\* The same under fair scheduling: a thread inside a region goes on, and a
\* thread waiting for a region that becomes free again and again gets it.
SpecRegionsFair ==
    /\ SpecRegions
    /\ \A t \in Threads : WF_vars(WalkLeave(t)) /\ SF_vars(WalkEnter(t))

\* ------------------------------------------------------ loadGrid (binary)
outsideGrid == <<build, refCount, alive, deletions, threadVars, handleVars,
                 collectorVars, filterVars, storeVars, perfVars, emissionVars,
                 outputVars, driverVars, regionVars>>

GridKinds == {"vector", "scalar"}
Sizes == 1..MaxN

\* The cells of a grid of size n, as grid->get(ix, iy, iz) names them.
CellsOf(n) == (0..(n[1] - 1)) \X (0..(n[2] - 1)) \X (0..(n[3] - 1))

\* sizeof(float)
SizeofFloat == 4

\* "size_t length = fin.tellg() / sizeof(float)" at the end of a file of the
\* given number of bytes: the whole floats in it.
Length(bytes) == bytes \div SizeofFloat

ExpectedLengthScalar(kind, n) == n[1] * n[2] * n[3]

\* The length the file must have: 3 * nx * ny * nz for a Grid3f,
\* nx * ny * nz for a Grid1f.
ExpectedLength(kind, n) ==
    IF kind = "vector" THEN 3 * n[1] * n[2] * n[3] ELSE n[1] * n[2] * n[3]

\* The p-th float of the file (from 0): the files differ in length only,
\* and every float of a file differs from the initial value of the cells.
FloatAt(p) == p + 1

\* The files loadGrid is given: of any number of bytes up to a few more than
\* the largest grid takes.
FileBytes == 0..(SizeofFloat * 3 * MaxN * MaxN * MaxN + SizeofFloat + 1)

\* loadGrid(grid, filename, c) up to the loops: std::runtime_error when the
\* file cannot be opened and when its length does not match the grid.
LoadOpen ==
    /\ fin.at = "idle"
    /\ fin' = [fin EXCEPT !.at = IF ~fin.found
                                 \/ Length(fin.bytes) # ExpectedLength(grid.kind, grid.n)
                                 THEN "threw" ELSE "loop"]
    /\ UNCHANGED <<grid, outsideGrid>>

\* One pass of the innermost loop: the cell (ix, iy, iz) is read from the
\* file, three floats for a Grid3f and one for a Grid1f, and multiplied by
\* c; then iz, iy and ix move on.
LoadCell ==
    /\ fin.at = "loop"
    /\ fin.ix < grid.n[1]
    /\ LET cell == <<fin.ix, fin.iy, fin.iz>>
           b == IF grid.kind = "vector"
                THEN <<FloatAt(fin.pos) * fin.c, FloatAt(fin.pos + 1) * fin.c,
                       FloatAt(fin.pos + 2) * fin.c>>
                ELSE FloatAt(fin.pos) * fin.c
           lastZ == fin.iz + 1 = grid.n[3]
           lastY == fin.iy + 1 = grid.n[2]
       IN  /\ grid' = [grid EXCEPT !.cells[cell] = b, !.writes[cell] = @ + 1]
           /\ fin' = [fin EXCEPT
                        !.pos = @ + (IF grid.kind = "vector" THEN 3 ELSE 1),
                        !.iz = IF lastZ THEN 0 ELSE @ + 1,
                        !.iy = IF lastZ THEN (IF lastY THEN 0 ELSE @ + 1) ELSE @,
                        !.ix = IF lastZ /\ lastY THEN @ + 1 ELSE @]
    /\ UNCHANGED outsideGrid

\* The loops are over: fin.close().
LoadClose ==
    /\ fin.at = "loop"
    /\ fin.ix = grid.n[1]
    /\ fin' = [fin EXCEPT !.at = "done"]
    /\ UNCHANGED <<grid, outsideGrid>>

\* A grid of either kind and any size, its cells 0, and a file that is
\* missing or of any length; the scale c is 1 or 2.
InitGrid ==
    /\ build = "GNUC"
    /\ ReferencedInit
    /\ ThreadsInit
    /\ HandlesInit
    /\ CollectorInit
    /\ FilterInit
    /\ StoreInit
    /\ PerfInit
    /\ RegionsInit
    /\ EmissionInit
    /\ OutputInit
    /\ DriverInit
    /\ \E k \in GridKinds, n \in Sizes \X Sizes \X Sizes :
           grid = [kind |-> k, n |-> n, cells |-> [x \in CellsOf(n) |-> 0],
                   writes |-> [x \in CellsOf(n) |-> 0]]
    /\ \E f \in BOOLEAN, bytes \in FileBytes, c \in {1, 2} :
           fin = [NoFin EXCEPT !.found = f, !.bytes = IF f THEN bytes ELSE 0, !.c = c]

NextGrid ==
    \/ LoadOpen
    \/ LoadCell
    \/ LoadClose

\* One call of loadGrid on a grid and a file.
SpecGrid == InitGrid /\ [][NextGrid]_vars

Quiescent == \A t \in Threads : pc[t] = "idle"

\* ------------------------------------------------- claims on the counter
\* C1: for one object on which only addReference and removeReference ran, in
\* any interleaving in which no decrement met a zero count, once all calls
\* have returned the count is (number of addReference) - (number of
\* removeReference), and the object was destroyed exactly once per decrement
\* that took the count from 1 to 0 (so at most once) and by nothing else.
C1_CountAndDestroyOnce ==
    \A o \in Objs :
        (Quiescent /\ hist[o].nodels = 0 /\ ~hist[o].zeroDec) =>
            /\ refCount[o] = hist[o].adds - hist[o].rems
            /\ deletions[o] = hist[o].oneToZero
            /\ deletions[o] <= 1
            /\ alive[o] <=> (deletions[o] = 0)

\* C5: addReference returns the count after its increment, removeReference
\* (on a count >= 1) the count after its decrement, and getReferenceCount
\* the current count.
C5_ReturnsNewCount ==
    \A t \in Threads :
        /\ last[t].name = "add" => last[t].ret = last[t].before + 1
        /\ (last[t].name = "remove" /\ last[t].before >= 1) =>
               last[t].ret = last[t].before - 1
        /\ last[t].name = "get" => last[t].ret = last[t].before

\* C6: no update of the count is lost, removeReferenceNoDelete included: once
\* all calls have returned, the count of a live object is the number of
\* increments minus the number of decrements (no decrement having met zero).
C6_NoLostUpdate ==
    \A o \in Objs :
        (Quiescent /\ alive[o] /\ ~hist[o].zeroDec) =>
            refCount[o] = hist[o].adds - hist[o].rems - hist[o].nodels

\* C9: removeReference on an object whose count is already 0 does not
\* destroy the object.
C9_RemoveOnZeroKeepsObject ==
    \A t \in Threads :
        (last[t].name = "remove" /\ last[t].before = 0) => ~last[t].deleted

\* ------------------------------------------------- claims on ref_ptr
\* C3: with one original handle per object, an object with K live copies of
\* its handle has the count K + 1 (so 1 again when all copies are gone), and
\* is never destroyed while the original lives.
C3_CopiesCount ==
    \A o \in Objs :
        /\ refCount[o] = Cardinality(CopiesOf(o)) + 1
        /\ alive[o]
        /\ deletions[o] = 0

\* C3 witness: the last copy of one object was just destroyed, bringing its
\* count back to 1, while another object has at least two live copies.
C3_Witness ==
    \E o, o2 \in Objs :
        /\ o # o2
        /\ lastOp.op = "dtor" /\ lastOp.old = o
        /\ CopiesOf(o) = {} /\ refCount[o] = 1
        /\ Cardinality(CopiesOf(o2)) >= 2
        /\ refCount[o2] = Cardinality(CopiesOf(o2)) + 1

\* C7: release() on a non-null handle returns the raw pointer, leaves the
\* handle null, lowers that object's count by exactly one, changes no other
\* count and destroys nothing (also when the count reaches 0); destroying a
\* null handle, as a released handle is, changes no count.
C7_ReleaseKeepsObject ==
    /\ (lastOp.op = "release" /\ lastOp.old # 0) =>
           /\ lastOp.ret = lastOp.old
           /\ ptr[lastOp.h] = 0
           /\ refCount = [lastOp.pre EXCEPT ![lastOp.old] = @ - 1]
           /\ alive[lastOp.old]
           /\ alive = lastOp.preAlive
    /\ (lastOp.op = "dtor" /\ lastOp.old = 0) =>
           /\ refCount = lastOp.pre
           /\ alive = lastOp.preAlive

\* C7 witness: a release took the count of a live object to 0.
C7_Witness ==
    /\ lastOp.op = "release" /\ lastOp.old # 0
    /\ refCount[lastOp.old] = 0
    /\ alive[lastOp.old]

\* C8: reassigning a handle from object A to a different object B raises B's
\* count by one and lowers A's by one, destroying A iff its count reaches 0;
\* reassigning to the object it already points to changes nothing.
C8_Reassign ==
    lastOp.op = "assign" =>
        LET a == lastOp.old
            b == lastOp.new
        IN  /\ a = b => (refCount = lastOp.pre /\ alive = lastOp.preAlive)
            /\ (a # 0 /\ b # 0 /\ a # b) =>
                   /\ refCount[b] = lastOp.pre[b] + 1
                   /\ alive[b]
                   /\ refCount[a] = lastOp.pre[a] - 1
                   /\ ~alive[a] <=> (refCount[a] = 0)

\* ------------------------------------------------- claims on the collector
\* The candidates stored, in buffer order, each named by (thread, call number).
Sources == [i \in 1..Len(container) |-> container[i].src]

FromThread(t) == SelectSeq(Sources, LAMBDA s : s[1] = t)

RECURSIVE SumDone(_)
SumDone(ts) ==
    IF ts = {} THEN 0
    ELSE LET t == CHOOSE x \in ts : TRUE IN done[t] + SumDone(ts \ {t})

\* C2: in every interleaving the buffer holds exactly one entry per process
\* call that has returned (so NThreads * MaxProcess entries when all calls
\* have returned), and the entries of one thread are in that thread's call
\* order.
C2_AllEntriesInCallOrder ==
    /\ Len(container) = SumDone(Threads)
    /\ \A t \in Threads : FromThread(t) = [k \in 1..done[t] |-> <<t, k>>]
    /\ (\A t \in Threads : done[t] = MaxProcess) =>
           Len(container) = NThreads * MaxProcess

\* C2 witness: all calls of all threads have returned and the buffer's first
\* two entries come from thread 2 and then thread 1 (the threads interleaved).
C2_Witness ==
    /\ \A t \in Threads : done[t] = MaxProcess /\ cpc[t] = "idle"
    /\ Len(container) = NThreads * MaxProcess
    /\ container[1].src = <<2, 1>>
    /\ container[2].src = <<1, 1>>

\* C12: the capacity hint is no upper bound: in every state size() is the
\* number of process calls that have returned, whatever the hint, and every
\* step leaves all earlier entries in place (the buffer only ever changes by
\* one entry appended at its end).
C12_HintIsNoBound ==
    /\ [](Size = SumDone(Threads))
    /\ [][/\ Len(container') >= Len(container)
          /\ Len(container') <= Len(container) + 1
          /\ SubSeq(container', 1, Len(container)) = container]_vars

\* C12 witness: a collector built with a capacity hint holds more entries
\* than the hint: all NThreads * MaxProcess calls have returned.
C12_Witness ==
    /\ ctor.overload >= 2
    /\ reserved = MaxHint
    /\ \A t \in Threads : done[t] = MaxProcess /\ cpc[t] = "idle"
    /\ Size = NThreads * MaxProcess
    /\ Size > reserved

\* C10: after every constructor overload (and before any setClone) the
\* member clone equals the clone argument, or false when the overload takes
\* none, the member recursive likewise, getClone() returns that value, and
\* process stores clones iff it is true.
C10_FlagsFromConstructor ==
    (ctor.overload # 0 /\ ~cloneSet) =>
        /\ GetClone = ctor.clone
        /\ recursive = ctor.recursive
        /\ \A i \in 1..Len(container) :
               /\ container[i].isClone = ctor.clone
               /\ container[i].rec = (ctor.clone /\ ctor.recursive)

\* ---------------------------------- claims on the collector's candidates
\* C11: process appends one handle. In reference mode it is a handle to the
\* object passed in, whose count rises by one (so the entry shows every later
\* change of the live candidate). In clone mode it is the only handle to a
\* new object with the fields the candidate had at the call, the original's
\* count is unchanged, and the new object has a copy of the whole secondary
\* tree when the recursive flag is set and no secondaries otherwise. No other
\* object's count changes.
C11_ProcessStoresHandle ==
    lastStore.op = "process" =>
        LET c == lastStore.c
            e == container[Len(container)]
            o == e.obj
        IN  /\ Len(container) = Len(lastStore.preContainer) + 1
            /\ \A x \in Cands \ {c} :
                   lastStore.preAlive[x] => refCount[x] = lastStore.pre[x]
            /\ ~lastStore.clone =>
                   /\ o = c
                   /\ refCount[c] = lastStore.pre[c] + 1
                   /\ alive = lastStore.preAlive
            /\ lastStore.clone =>
                   /\ o # c
                   /\ ~lastStore.preAlive[o]
                   /\ alive[o]
                   /\ refCount[o] = 1
                   /\ refCount[c] = lastStore.pre[c]
                   /\ Fields(cand[o]) = lastStore.snap[1]
                   /\ lastStore.recursive =>
                          /\ Shape(cand, o) = lastStore.snap
                          /\ \A n \in Nodes(Heap, o) :
                                 ~lastStore.preAlive[n] /\ alive[n] /\ refCount[n] = 1
                   /\ ~lastStore.recursive => cand[o].secs = <<>>

\* C11 witness: the buffer holds the primary itself (stored in reference
\* mode) and then a recursive clone of it with its own copy of the secondary,
\* and the primary has moved on since, which the first entry shows and the
\* clone does not.
C11_Witness ==
    /\ lastStore.op = "process" /\ lastStore.clone /\ lastStore.recursive
    /\ lastStore.c = 1
    /\ Len(container) = 2
    /\ ~container[1].isClone /\ container[1].obj = 1 /\ refCount[1] = 2
    /\ container[2].obj \notin SimCands
    /\ Len(cand[container[2].obj].secs) = 1
    /\ cand[container[2].obj].secs[1] \notin SimCands
    /\ cand[container[1].obj].len = 1
    /\ cand[container[2].obj].len = 0

\* The candidates the buffer holds, with their secondary trees.
StoredNodes == UNION {Nodes(Heap, container[i].obj) : i \in 1..Len(container)}

\* A step that leaves the buffer and every candidate it holds as they were.
StoredUntouched ==
    /\ container' = container
    /\ \A o \in StoredNodes :
           alive'[o] /\ refCount'[o] = refCount[o] /\ cand'[o] = cand[o]

\* C13: reprocess calls action->process once per stored entry, from the
\* first to the last: in reference mode on the stored object itself, in
\* clone mode on a new object with the fields of the stored one and no
\* secondaries. The call leaves the buffer (size, order) and the stored
\* objects as they were.
C13_ReprocessReplaysAll ==
    /\ [](lastStore.op = "reprocess" =>
             /\ Len(replay) = Len(container)
             /\ container = lastStore.preContainer
             /\ \A i \in 1..Len(container) :
                    /\ replay[i].of = container[i].obj
                    /\ ~lastStore.clone => replay[i].obj = container[i].obj
                    /\ lastStore.clone =>
                           /\ ~lastStore.preAlive[replay[i].obj]
                           /\ replay[i].fields = replay[i].was
                           /\ replay[i].nsecs = 0)
    /\ [][Reprocess => StoredUntouched]_vars

\* C13 witness: a reprocess in clone mode over two entries, the first one
\* the primary itself (stored in reference mode, with its secondary): the
\* action was given two new objects without secondaries.
C13_Witness ==
    /\ lastStore.op = "reprocess" /\ lastStore.clone
    /\ Len(container) = 2 /\ Len(replay) = 2
    /\ container[1].obj = 1 /\ ~container[1].isClone
    /\ Len(cand[1].secs) = 1
    /\ replay[1].obj \notin SimCands /\ replay[1].nsecs = 0
    /\ replay[2].of = container[2].obj

C15_TrajectoryStartsRestarted ==
    traj.idx # 0 =>
        LET stored == cand[container[traj.idx].obj]
        IN  /\ traj.start.active
            /\ traj.start.len = 0
            /\ traj.start.created = stored.created
            /\ traj.start.source = stored.source
            /\ traj.tmp # container[traj.idx].obj

\* C15 witness: getTrajectory is running for the primary, stored when it had
\* ended with a trajectory of length MaxLen.
C15_Witness ==
    /\ traj.phase = "running"
    /\ container[traj.idx].obj = 1
    /\ ~cand[1].active /\ cand[1].len = MaxLen
    /\ traj.start.active /\ traj.start.len = 0
    /\ traj.start.source = 2212

\* C16: while getTrajectory runs the candidate, the module list is the list
\* it was given followed by the output module; when getTrajectory has
\* returned, the module list is again the list it was given.
C16_OutputModuleIsTemporary ==
    /\ traj.phase = "running" =>
           /\ mlist = traj.chain
           /\ mlist[Len(mlist)] = "output"
           /\ SubSeq(mlist, 1, Len(mlist) - 1) = traj.before
    /\ (traj.phase = "idle" /\ traj.idx # 0) => mlist = traj.before

\* C16 witness: getTrajectory has returned on a list of two modules, which
\* is as before, and the run it made had the output module as its third.
C16_Witness ==
    /\ traj.phase = "idle" /\ traj.idx # 0
    /\ traj.before = <<"propagation", "observer">>
    /\ mlist = <<"propagation", "observer">>
    /\ traj.chain = <<"propagation", "observer", "output">>

\* ------------------------------------------ claims on PerformanceModule
\* The calls process must make for candidate c: one per wrapped module, in
\* the order of add.
ExpectedCalls(c) == [i \in 1..Len(modules) |-> [module |-> modules[i].module, cand |-> c]]

\* C17: one PerformanceModule::process call makes exactly one process call
\* per wrapped module, in the order the modules were added, each on the
\* candidate it was given (a call in flight has made the first ones of them).
C17_EachWrappedModuleOnce ==
    \A t \in Threads :
        /\ pghost.last[t].cand # 0 =>
               pghost.last[t].log = ExpectedCalls(pghost.last[t].cand)
        /\ ppc[t] # "idle" =>
               plocal[t].log = SubSeq(ExpectedCalls(plocal[t].cand), 1, Len(plocal[t].log))

\* C17 witness: a call on a wrapper of two different modules has returned.
C17_Witness ==
    \E t \in Threads :
        /\ pghost.last[t].cand # 0
        /\ Len(modules) = 2 /\ modules[1].module # modules[2].module
        /\ Len(pghost.last[t].log) = 2
        /\ pghost.last[t].log[1].module = modules[1].module
        /\ pghost.last[t].log[2].module = modules[2].module

\* C18: when all process calls have returned, in any interleaving, calls is
\* the number of process calls made and the time of every wrapped module is
\* the sum of the durations measured for it: no merge is lost or made twice.
C18_NoMergeLost ==
    (\A t \in Threads : ppc[t] = "idle") =>
        /\ pmCalls = pghost.completed
        /\ pghost.completed = pghost.started
        /\ \A i \in 1..Len(modules) : modules[i].time = pghost.sums[i]

\* C18 witness: MaxPerf calls of two threads have returned, the one of
\* thread 2 merging first, and the first module's time is the largest sum of
\* durations there can be.
C18_Witness ==
    /\ \A t \in Threads : ppc[t] = "idle"
    /\ pmCalls = MaxPerf
    /\ pghost.last[1].cand # 0 /\ pghost.last[2].cand # 0
    /\ pghost.last[1].seenCalls > pghost.last[2].seenCalls
    /\ Len(modules) >= 1 /\ modules[1].time = MaxPerf

RECURSIVE SumOver(_, _)
\* The sum of f over the index set S.
SumOver(f, S) ==
    IF S = {} THEN 0
    ELSE LET i == CHOOSE x \in S : TRUE IN f[i] + SumOver(f, S \ {i})

\* C19: the total time the teardown report uses is the sum of the times of
\* the wrapped modules, which is the sum of all durations measured.
C19_TotalIsSumOfTimes ==
    report.done =>
        /\ report.total = SumOver([i \in 1..Len(modules) |-> modules[i].time],
                                  1..Len(modules))
        /\ report.total = SumOver(pghost.sums, 1..Len(pghost.sums))

\* C19 witness: a wrapper of two modules with different non-zero times was
\* destroyed after calls of two threads.
C19_Witness ==
    /\ report.done
    /\ Len(modules) = 2
    /\ modules[1].time > 0 /\ modules[2].time > 0
    /\ modules[1].time # modules[2].time
    /\ report.total = modules[1].time + modules[2].time
    /\ pghost.last[1].cand # 0 /\ pghost.last[2].cand # 0

\* ------------------------------------------ claims on the critical regions
\* Thread t is in the first loop of PerformanceModule::process, where the
\* wrapped modules' process calls are made.
CallingWrapped(t) == ppc[t] = "timing"

\* Thread t is at "container.push_back(c->clone(recursive))" of
\* ParticleCollector::process: the clone has still to be made.
Cloning(t) == cpc[t] = "inside" /\ clone

\* C20: the work that is not the mutation of the shared resource runs
\* outside the named critical region: a thread making the wrapped modules'
\* process calls is not inside the region PerformanceModule, and a thread
\* cloning a candidate for the collector is not inside the region
\* ModifyContainer.
C20_OnlyMutationInsideRegions ==
    \A t \in Threads :
        /\ CallingWrapped(t) => pmRegion # t
        /\ Cloning(t) => modifyContainer # t

\* ------------------------------------------------- claims on the filter
\* C4: one process call on a candidate with id x and identifier set S makes
\* exactly one call of accept or reject: accept iff x is in S, reject iff x
\* is not in S.
C4_AcceptIffMember ==
    fcall.op = "process" =>
        /\ fcall.accepts + fcall.rejects = 1
        /\ fcall.accepts = 1 <=> fcall.id \in fcall.ids
        /\ fcall.rejects = 1 <=> fcall.id \notin fcall.ids

\* C4 witness: a candidate was accepted by a filter whose set holds its id
\* and misses another id.
C4_Witness ==
    /\ fcall.op = "process"
    /\ fcall.accepts = 1
    /\ fcall.id \in fcall.ids
    /\ fcall.ids # ParticleIds

\* C21: with an emission map configured, every process call of the filler
\* makes exactly one fillMap call, on that map and with the candidate's
\* source state, and no two threads are inside fillMap on the shared map at
\* the same time.
C21_OneSerialFill ==
    /\ \A t \in Threads :
         epc[t].set =>
           /\ Len(epc[t].fills) <= 1
           /\ epc[t].returned => Len(epc[t].fills) = 1
           /\ \A i \in 1..Len(epc[t].fills) :
                /\ epc[t].fills[i].map \in EmissionMaps \ {0}
                /\ epc[t].fills[i].state = cand[epc[t].c].source
    /\ \A t1, t2 \in Threads :
         (epc[t1].at = "filling" /\ epc[t2].at = "filling") => t1 = t2

\* One call has filled the map with the source state of the secondary, whose
\* current and created states differ from it, while another thread is inside
\* fillMap and holds the region.
C21_Witness ==
    \E t1, t2 \in Threads :
        /\ epc[t1].returned /\ epc[t1].set /\ epc[t1].c = 2
        /\ Len(epc[t1].fills) = 1
        /\ cand[2].source # cand[2].id /\ cand[2].source # cand[2].created
        /\ epc[t2].at = "filling" /\ emRegion = t2

\* C22: with no emission map configured (a null pointer given to the
\* constructor or to setEmissionMap), process does nothing: it makes no
\* fillMap call, never enters the critical region, returns at once, and its
\* step leaves the candidates and the region as they were.
C22_NullMapIsNoOp ==
    /\ [](\A t \in Threads :
            (epc[t].c # 0 /\ ~epc[t].set) =>
                /\ epc[t].fills = <<>>
                /\ epc[t].entries = 0
                /\ epc[t].at = "idle" /\ epc[t].returned)
    /\ [][\A t \in Threads :
            (epc'[t] # epc[t] /\ ~epc'[t].set) =>
                /\ cand' = cand
                /\ emRegion' = emRegion
                /\ <<refCount', alive'>> = <<refCount, alive>>]_vars

\* A call has returned having found no map, after an earlier call of the
\* other thread had filled the map: the map was taken away in between.
C22_Witness ==
    \E t1, t2 \in Threads :
        /\ epc[t1].returned /\ ~epc[t1].set /\ epc[t1].c # 0
        /\ epc[t2].returned /\ epc[t2].set /\ Len(epc[t2].fills) = 1
        /\ emissionMap = 0

\* C23: process on a candidate whose active flag is already false does
\* nothing: the filter invokes neither accept nor reject, the filler makes
\* no fillMap call, and the collector's size stays what it was.
C23_InactiveIsNoOp ==
    /\ [](\A t \in Threads : (epc[t].c # 0 /\ ~epc[t].active) => epc[t].fills = <<>>)
    /\ [][/\ \A c \in SimCands :
               (/\ fcall' # fcall
                /\ fcall'.op = "process"
                /\ fcall'.id = cand[c].id
                /\ ~cand[c].active)
               => (fcall'.accepts = 0 /\ fcall'.rejects = 0)
          /\ (/\ lastStore' # lastStore
              /\ lastStore'.op = "process"
              /\ ~cand[lastStore'.c].active)
             => Len(container') = Len(container)]_vars

\* C24: PhotonOutput1D::process holds the FileOutput region for exactly one
\* write: a call enters the region at most once and makes its only write
\* inside it, a thread holds the region exactly while it is inside write (so
\* not on any return path, the early return included), and in the stream the
\* two parts of a record are next to each other, never mixed with another
\* record.
C24_OneWriteInsideRegion ==
    /\ \A t \in Threads :
         /\ opc[t].writes <= 1
         /\ opc[t].entries = opc[t].writes
         /\ (opc[t].at = "writing") <=> (fileOutput = t)
         /\ opc[t].returned => (opc[t].at = "idle" /\ fileOutput # t)
         /\ (opc[t].returned /\ opc[t].buffer # <<>>) => opc[t].writes = 1
    /\ \A i \in 1..Len(output.stream) :
         LET s == output.stream
         IN  /\ s[i].part = "begin" =>
                  (i = Len(s) \/ (s[i + 1].part = "end" /\ s[i + 1].of = s[i].of))
             /\ s[i].part = "end" =>
                  (i > 1 /\ s[i - 1].part = "begin" /\ s[i - 1].of = s[i].of)

\* A thread is inside write, holding the region, after a whole record of an
\* earlier call, while the other thread has its record formatted and waits.
C24_Witness ==
    \E t1, t2 \in Threads :
        /\ opc[t1].at = "writing" /\ fileOutput = t1
        /\ opc[t2].at = "formatted"
        /\ \E i \in 1..Len(output.stream) : output.stream[i].part = "end"
        /\ output.stream[Len(output.stream)].part = "begin"

\* C25: in a build without compression support the constructor given a file
\* name ending in ".gz" throws std::runtime_error before anything is written
\* to the stream, and no process call is ever made on the object; with any
\* other file name, or in a build with compression support, it does not throw.
C25_GzWithoutZlibThrows ==
    /\ output.ctor = 3 =>
         (output.threw <=>
            (/\ ~haveZlib
             /\ Len(output.filename) >= 3
             /\ output.filename[Len(output.filename) - 2] = "."
             /\ output.filename[Len(output.filename) - 1] = "g"
             /\ output.filename[Len(output.filename)] = "z"))
    /\ output.ctor \in {1, 2} => ~output.threw
    /\ output.threw => (output.stream = <<>> /\ outCalls = 0)

\* The constructor has thrown for a name ending in ".gz"; the stream is empty.
C25_Witness ==
    /\ output.ctor = 3 /\ output.threw /\ ~haveZlib
    /\ output.filename = <<"o", ".", "g", "z">>
    /\ output.stream = <<>>

RECURSIVE Under(_, _, _)
\* Node n of the tree tr is a, or below a.
Under(tr, n, a) == n = a \/ (tr[n].parent # 0 /\ Under(tr, tr[n].parent, a))

\* One sequence is the beginning of the other.
Agree(a, b) ==
    \/ Len(a) <= Len(b) /\ a = SubSeq(b, 1, Len(a))
    \/ Len(b) <= Len(a) /\ b = SubSeq(a, 1, Len(b))

C28_InactiveNotRerun ==
    /\ [][\A r \in Runs : \A n \in 1..Len(tree[r]) :
            ~tree[r][n].active => tree'[r][n].passes = tree[r][n].passes]_vars
    /\ [](\A r \in Runs : \A n \in 1..Len(tree[r]) :
            (drv[r].done /\ ~tree[r][n].active) =>
                \A i \in 1..Len(tree[r][n].secs) : tree[r][tree[r][n].secs[i]].visited)

\* A run has returned; its top-level candidate went inactive before the
\* budget was used up, and the chain was run on its secondaries after that.
C28_Witness ==
    \E r \in Runs :
        /\ drv[r].done
        /\ ~tree[r][1].active /\ tree[r][1].passes < MaxSteps
        /\ tree[r][1].secs # <<>>
        /\ \A i \in 1..Len(tree[r][1].secs) : tree[r][tree[r][1].secs[i]].passes > 0

\* C29: the membership test of process and the mutators act on one set.
\* After addId(x), or an insert of x through the reference getIds returns,
\* the set is the one before with x in it (the same set when x was there
\* already) and process on x accepts; after removeId(x), or an erase of x
\* through the reference, the set is the one before without x (the same set
\* when x was absent) and process on x rejects.
C29_OneIdSet ==
    /\ fmut.op \in {"addId", "insert"} =>
         /\ ids = fmut.pre \cup {fmut.id}
         /\ fmut.id \in fmut.pre => ids = fmut.pre
         /\ fmut.checked \in {"none", "accept"}
    /\ fmut.op \in {"removeId", "erase"} =>
         /\ ids = fmut.pre \ {fmut.id}
         /\ fmut.id \notin fmut.pre => ids = fmut.pre
         /\ fmut.checked \in {"none", "reject"}

\* An id that was not in the set has been inserted through the reference,
\* and process has accepted a candidate with that id since.
C29_Witness ==
    /\ fmut.op = "insert"
    /\ fmut.id \notin fmut.pre
    /\ fmut.checked = "accept"
    /\ fcall.op = "process" /\ fcall.id = fmut.id /\ fcall.accepts = 1

\* The live handles that point to o.
HandlesTo(o) == {h \in Handles : hlive[h] /\ ptr[h] = o}

\* C30: for objects managed through ref_ptr handles only, the count of an
\* object is the number of live handles pointing to it; an object is live
\* while it has a handle and no handle points to a destroyed object; an
\* object is destroyed at most once; and when an operation has taken away the
\* last handle of an object, the object has been destroyed, exactly once.
C30_HandlesOwnObjects ==
    /\ \A o \in Objs :
         /\ refCount[o] = Cardinality(HandlesTo(o))
         /\ HandlesTo(o) # {} => (alive[o] /\ deletions[o] = 0)
         /\ deletions[o] <= 1
         /\ alive[o] <=> (deletions[o] = 0)
    /\ (/\ lastOp.op \in {"dtor", "assign"}
        /\ lastOp.old # 0
        /\ HandlesTo(lastOp.old) = {}) =>
           (~alive[lastOp.old] /\ deletions[lastOp.old] = 1)

\* C31: the report of ~PerformanceModule is well defined in every state the
\* wrapper can be destroyed in: it has one line per wrapped module, whose
\* share is the module's time divided by the total and whose average is the
\* module's time divided by the number of calls, both divisions having a
\* value (no division by zero), also when no call was made or the total is 0.
C31_ReportWellDefined ==
    report.done =>
        /\ Len(report.lines) = Len(modules)
        /\ \A i \in 1..Len(report.lines) :
             /\ report.lines[i].share.kind = "finite"
             /\ report.lines[i].share.num = 1000 * modules[i].time
             /\ report.lines[i].share.den = report.total
             /\ report.lines[i].average.kind = "finite"
             /\ report.lines[i].average.num = modules[i].time
             /\ report.lines[i].average.den = pmCalls

\* The parts of records in the stream that the call numbered k has written.
WrittenBy(k) == SelectSeq(output.stream, LAMBDA x : x.of = k)

\* C32: a PhotonOutput1D::process call that has returned has written exactly
\* one record, and left its candidate inactive, if the candidate's current id
\* is 22, 11 or -11; for any other id it has written nothing, and the step of
\* such a call changes no candidate (a candidate of another id is as it was
\* at the start, active).
C32_RecordIffPhotonOrElectron ==
    /\ [](\A t \in Threads :
            (opc[t].returned /\ opc[t].c # 0) =>
                IF cand[opc[t].c].id \in {22, 11, -11}
                THEN /\ opc[t].writes = 1
                     /\ Len(WrittenBy(opc[t].call)) = 2
                     /\ WrittenBy(opc[t].call)[1].text \o WrittenBy(opc[t].call)[2].text
                            = Buffer(opc[t].c)
                     /\ ~cand[opc[t].c].active
                ELSE /\ opc[t].writes = 0
                     /\ WrittenBy(opc[t].call) = <<>>
                     /\ cand[opc[t].c].active)
    /\ [][\A t \in Threads :
            (opc'[t] # opc[t] /\ cand[opc'[t].c].id \notin {22, 11, -11}) =>
                (cand' = cand /\ output' = output)]_vars

\* A call on a positron has returned with its record written and the
\* candidate inactive, and a call on a proton has returned with nothing
\* written and the candidate still active.
C32_Witness ==
    \E t1, t2 \in Threads :
        /\ opc[t1].returned /\ opc[t1].c # 0 /\ cand[opc[t1].c].id = -11
        /\ opc[t1].writes = 1 /\ ~cand[opc[t1].c].active
        /\ opc[t2].returned /\ opc[t2].c # 0 /\ cand[opc[t2].c].id = 2212
        /\ opc[t2].writes = 0 /\ cand[opc[t2].c].active


(* C33: the three compile-time variants of the counter are observationally *)
(* equivalent: from the count an object has in any reachable state,        *)
(* addReference and removeReference return the same value in every build,  *)
(* leave the same count (every build adds or subtracts one), and           *)
(* removeReference makes the same destroy/keep decision.                   *)
C33_VariantsEquivalent ==
    \A o \in Objs : \A b \in Builds :
        /\ AddCapture(b, refCount[o]) = AddCapture(build, refCount[o])
        /\ refCount[o] > 0 =>
              /\ RemoveCapture(b, refCount[o]) = RemoveCapture(build, refCount[o])
              /\ DeletesOn(RemoveCapture(b, refCount[o]))
                    = DeletesOn(RemoveCapture(build, refCount[o]))


\* The pairs <<h, r>> such that the operations ops enter region r while
\* they are inside region h; held is the regions they are inside.
RECURSIVE Nesting(_, _)
Nesting(ops, held) ==
    IF ops = <<>> THEN {}
    ELSE IF Head(ops).op = "enter"
         THEN {<<held[i], Head(ops).region>> : i \in 1..Len(held)}
              \cup Nesting(Tail(ops), Append(held, Head(ops).region))
         ELSE Nesting(Tail(ops), SubSeq(held, 1, Len(held) - 1))

\* Region p[1] is held while p[2] is requested, directly or through others.
Before(E) ==
    LET Step(F) == F \cup {p \in Regions \X Regions :
                              \E m \in Regions : <<p[1], m>> \in F /\ <<m, p[2]>> \in F}
    IN  Step(Step(Step(E)))

Requests(t, r) ==
    /\ walk[t].prog # <<>>
    /\ Head(walk[t].prog) = [op |-> "enter", region |-> r]

(* C34: on every module chain, a PerformanceModule around a                *)
(* ParticleCollector, a PhotonOutput1D, an EmissionMapFiller or another    *)
(* PerformanceModule included, the named critical regions are never        *)
(* acquired in a cyclic order (no region is requested, directly or through *)
(* others, while it is itself held), and under fair scheduling every       *)
(* thread that requests a region eventually enters it and leaves it again: *)
(* a call with a region still to enter or to leave (its operations are     *)
(* made in order, one at a time) eventually has none left.                 *)
C34_RegionsNeverCyclic ==
    /\ [](\A r \in Regions :
              <<r, r>> \notin Before(UNION {Nesting(ChainOps(mchain, pid), <<>>) :
                                               pid \in ParticleIds}))
    /\ \A t \in Threads : (walk[t].prog # <<>>) ~> (walk[t].prog = <<>>)

\* A thread is inside newRef inside ModifyContainer, called by a
\* PerformanceModule inside another, while the other thread waits for
\* ModifyContainer.
C34_Witness ==
    /\ mchain[1].kind = "PerformanceModule"
    /\ mchain[1].modules[1].kind = "PerformanceModule"
    /\ modifyContainer = 1
    /\ region = 1
    /\ Requests(2, "ModifyContainer")


(* C35: every access to the buffer is made inside the ModifyContainer      *)
(* region (a thread that reads it in reprocess, dump or getTrajectory is   *)
(* the one inside the region), and while one thread reads the buffer no    *)
(* process call of another thread grows (reallocates) it.                  *)
C35_ReadsInsideRegion ==
    /\ [](\A t \in Threads : cpc[t] \in Readers => modifyContainer = t)
    /\ [][\A t \in Threads :
              (cpc[t] \in Readers /\ Len(container') > Len(container))
                 => ~Reallocates(container)]_vars


(* C36: getTrajectory works on a clone only: no step of the call changes   *)
(* the size or the entries of the collector, or the active flag, the       *)
(* trajectory length, the current state or the reference count of the      *)
(* stored candidate at the index; and when the call has returned, the      *)
(* temporary clone has been destroyed (no module of the run stores a       *)
(* handle to it).                                                          *)
C36_TrajectoryOnCloneOnly ==
    /\ [][(traj.phase = "running" \/ traj'.phase = "running") =>
             LET o == container[traj'.idx].obj
             IN  /\ container' = container
                 /\ cand'[o] = cand[o]
                 /\ refCount'[o] = refCount[o]
                 /\ alive'[o] = alive[o]]_vars
    /\ []((traj.phase = "idle" /\ traj.idx # 0) => ~alive[traj.tmp])


(* C37: in a reassignment (operator= or assign) the new target's count     *)
(* is incremented before the old target's is decremented, so the new       *)
(* target is never destroyed during the reassignment, also when the old    *)
(* target's destruction releases the only other reference to the new       *)
(* target. As stated, for every handle:                                    *)
C37_NewTargetNeverDestroyed ==
    (lastOp.op = "assign" /\ lastOp.new # 0) =>
        /\ alive[lastOp.new]
        /\ deletions[lastOp.new] = 0

(* C37, amended: the same for a reassigned handle that outlives the        *)
(* reassignment (it is not a member of an object that the old target's     *)
(* destruction destroys): the new target is alive, has not been deleted,   *)
(* and is held by the handle, whose reference its count includes.          *)
C37_NewTargetSurvives ==
    (lastOp.op = "assign" /\ lastOp.new # 0 /\ hlive[lastOp.h]) =>
        /\ alive[lastOp.new]
        /\ deletions[lastOp.new] = 0
        /\ ptr[lastOp.h] = lastOp.new
        /\ refCount[lastOp.new] >= 1

\* A handle on object 1 has been reassigned to object 2, of which object 1
\* held the only handle: object 1 was destroyed with its handle, and object
\* 2 is alive with the one reference of the reassigned handle.
C37_Witness ==
    /\ build = "GNUC"
    /\ lastOp.op = "assign" /\ lastOp.old = 1 /\ lastOp.new = 2
    /\ hlive[lastOp.h]
    /\ lastOp.pre[2] = 1 /\ lastOp.pre[1] = 1
    /\ ~alive[1] /\ ~hlive[LinkOf(1)]
    /\ alive[2] /\ refCount[2] = 1


(* C38: after close the output stream is never freed or written through    *)
(* again: the stream is freed at most once, however often close is called  *)
(* (the destructor's call after an explicit close included), and no        *)
(* process call writes through a freed or null stream.                     *)
C38_NoUseAfterClose ==
    /\ output.freed <= 1
    /\ ~output.wild


\* The floats of the file that belong to the cell x of a grid of size n, in
\* the order x, then y, then z of the cell, the last index running fastest.
CellNumber(n, x) == x[1] * n[2] * n[3] + x[2] * n[3] + x[3]

(* C39: binary loadGrid, on a vector and on a scalar grid, raises an error *)
(* when the file cannot be opened or when the number of floats in the file *)
(* differs from the cell count (3*Nx*Ny*Nz for a vector grid, Nx*Ny*Nz for *)
(* a scalar grid), and then no cell has been modified; otherwise, once it  *)
(* has returned, every cell has been assigned exactly once (its own floats *)
(* of the file, times c), and no cell is assigned more than once on the    *)
(* way.                                                                    *)
C39_LoadGridAllOrNothing ==
    LET cells == IF grid.kind = "vector" THEN 3 * grid.n[1] * grid.n[2] * grid.n[3]
                 ELSE grid.n[1] * grid.n[2] * grid.n[3]
        bad == ~fin.found \/ fin.bytes \div 4 # cells
    IN  /\ fin.at # "idle" => (bad <=> fin.at = "threw")
        /\ fin.at = "threw" =>
               \A x \in CellsOf(grid.n) : grid.writes[x] = 0 /\ grid.cells[x] = 0
        /\ \A x \in CellsOf(grid.n) : grid.writes[x] <= 1
        /\ fin.at = "done" =>
               \A x \in CellsOf(grid.n) :
                   /\ grid.writes[x] = 1
                   /\ grid.cells[x] =
                         IF grid.kind = "vector"
                         THEN [j \in 1..3 |->
                                 fin.c * (3 * CellNumber(grid.n, x) + j)]
                         ELSE fin.c * (CellNumber(grid.n, x) + 1)

\* A vector grid of the largest size has been loaded with scale 2 from a
\* file of the right length plus a stray byte: its last cell holds the last
\* three floats of the file, doubled.
C39_Witness ==
    /\ fin.at = "done" /\ grid.kind = "vector" /\ grid.n = <<MaxN, MaxN, MaxN>>
    /\ fin.c = 2
    /\ fin.bytes = 4 * 3 * MaxN * MaxN * MaxN + 1
    /\ grid.cells[<<MaxN - 1, MaxN - 1, MaxN - 1>>][3] = 2 * 3 * MaxN * MaxN * MaxN

====
